---------------------------- MODULE Spec2Model ----------------------------
(***************************************************************************)
(* A model of notebooklm-py's source-ingestion and authentication core:    *)
(*   src/src/notebooklm/_sources.py  (SourcesAPI: add, the resumable       *)
(*                                    upload, the YouTube URL parser)      *)
(*   src/src/notebooklm/auth.py      (cookie filters, token extraction)    *)
(*                                                                         *)
(* Python strings are sequences of one-character strings, so that strip,   *)
(* split, lower, endswith and the regular expression of the source are     *)
(* computed character by character.                                        *)
(***************************************************************************)
EXTENDS Integers, Sequences, FiniteSets, TLC

VARIABLES
    \* ---- SourcesAPI.add: one call and the world it talks to
    pc,          \* where the add coroutine stands
    nb,          \* notebook_id of the call
    raw,         \* source: the raw string given to add
    fs,          \* what Path(source) names on disk: "file", "dir" or "absent"
    fsAtAdd,     \* history: fs when add made its own check (line 44)
    branch,      \* history: the branch add took ("none" before it chose)
    diskSize,    \* st_size of the file on disk
    file_size,   \* _add_file_source's local file_size
    source_id,   \* _add_file_source's local source_id
    upload_url,  \* _add_file_source's local upload_url
    sent,        \* the chunks file_stream has yielded, as their lengths
    calls,       \* every remote request issued so far, in order
    replies,     \* history: what each awaited request answered, in order
    registered,  \* service side: the source ids the service has registered
    result,      \* what add gave its caller
    auth,        \* self._core.auth: the AuthTokens of the session
    \* ---- the classifier as a function of its input (SpecClassify)
    cl_x,        \* the candidate identifier cl_raw was built around
    cl_raw, cl_fs, cl_parse, cl_out, cl_done,
    \* ---- extract_id as a function of its input (SpecUnwrap)
    uw_in, uw_out, uw_done,
    \* ---- the cookie filters as functions of the storage state (SpecCookies)
    ck_list, ck_rpc, ck_dl, ck_done,
    \* ---- AuthTokens.from_storage: one call (SpecAcquire)
    aq_pc,       \* where from_storage stands
    aq_storage,  \* the storage state file on disk
    aq_cookies,  \* from_storage's local cookies
    aq_fetches,  \* the GET requests made so far
    aq_page,     \* history: what the GET answered
    aq_result,   \* what from_storage gave its caller
    \* ---- SourcesAPI.list and SourcesAPI.delete (SpecClient)
    op,          \* the list or delete call under way: its name and arguments
    \* ---- two add calls under way on one client (SpecConcurrent)
    cc_self,     \* the client the calls share: what SourcesAPI holds
    cc_args,     \* call -> the notebook and the path its caller passed
    cc_pc,       \* call -> the await its coroutine is suspended at
    cc_frame,    \* frame -> the local variables of _add_file_source
    cc_wire,     \* the requests sent so far, each with the call that sent it
    cc_got,      \* call -> the id and the session URL the service answered it with
    cc_result    \* call -> what add gave its caller

addVars == <<pc, nb, raw, fs, fsAtAdd, branch, diskSize, file_size, source_id,
             upload_url, sent, calls, replies, registered, result, auth>>
clVars  == <<cl_x, cl_raw, cl_fs, cl_parse, cl_out, cl_done>>
uwVars  == <<uw_in, uw_out, uw_done>>
ckVars  == <<ck_list, ck_rpc, ck_dl, ck_done>>
aqVars  == <<aq_pc, aq_storage, aq_cookies, aq_fetches, aq_page, aq_result>>
ccVars  == <<cc_self, cc_args, cc_pc, cc_frame, cc_wire, cc_got, cc_result>>
vars    == <<addVars, clVars, uwVars, ckVars, aqVars, op, ccVars>>

-----------------------------------------------------------------------------
(* Bounds of the model *)

\* identifiers in generated URLs have 1..MaxIdLen characters
MaxIdLen == 2
\* nesting depth of generated replies
MaxDepth == 4
\* files hold up to MaxFullChunks full chunks, plus or minus a byte
MaxFullChunks == 2
\* cookies in a generated storage state
MaxCookies == 2

\* f.read(65536)
READ_SIZE == 65536

-----------------------------------------------------------------------------
(* Python str, character by character *)

LowerLetters == <<"a", "b", "c", "d", "e", "f", "g", "h", "i", "j", "k", "l", "m",
                  "n", "o", "p", "q", "r", "s", "t", "u", "v", "w", "x", "y", "z">>
UpperLetters == <<"A", "B", "C", "D", "E", "F", "G", "H", "I", "J", "K", "L", "M",
                  "N", "O", "P", "Q", "R", "S", "T", "U", "V", "W", "X", "Y", "Z">>
Digits       == {"0", "1", "2", "3", "4", "5", "6", "7", "8", "9"}
Range(s)     == {s[i] : i \in 1..Len(s)}
Letters      == Range(LowerLetters) \cup Range(UpperLetters)
\* str.strip() and str.lstrip() with no argument remove these
Whitespace   == {" ", "\t", "\n", "\r"}

\* c.lower()
LowerChar(c) ==
    IF \E i \in 1..26 : UpperLetters[i] = c
    THEN LowerLetters[CHOOSE i \in 1..26 : UpperLetters[i] = c]
    ELSE c

\* s.lower()
Lower(s) == [i \in 1..Len(s) |-> LowerChar(s[i])]

\* s[i:] with i counted from 1
Drop(s, i) == SubSeq(s, i, Len(s))

\* 1-based s.find(c, start): the first index >= start holding a character of cs,
\* 0 when there is none
RECURSIVE FindAny(_, _, _)
FindAny(s, cs, start) ==
    IF start > Len(s) THEN 0
    ELSE IF s[start] \in cs THEN start
    ELSE FindAny(s, cs, start + 1)

Find(s, c) == FindAny(s, {c}, 1)

\* 1-based s.rfind(c): the last index holding c, 0 when there is none
RECURSIVE RFindFrom(_, _, _)
RFindFrom(s, c, i) ==
    IF i = 0 THEN 0
    ELSE IF s[i] = c THEN i
    ELSE RFindFrom(s, c, i - 1)

RFind(s, c) == RFindFrom(s, c, Len(s))

\* s.lstrip(chars)
RECURSIVE LStrip(_, _)
LStrip(s, cs) ==
    IF Len(s) > 0 /\ s[1] \in cs THEN LStrip(Tail(s), cs) ELSE s

\* s.rstrip(chars)
RECURSIVE RStrip(_, _)
RStrip(s, cs) ==
    IF Len(s) > 0 /\ s[Len(s)] \in cs THEN RStrip(SubSeq(s, 1, Len(s) - 1), cs) ELSE s

\* s.strip()
Strip(s) == RStrip(LStrip(s, Whitespace), Whitespace)

\* s.split(c): always at least one piece
RECURSIVE Split(_, _)
Split(s, c) ==
    LET i == Find(s, c)
    IN  IF i = 0 THEN <<s>>
        ELSE <<SubSeq(s, 1, i - 1)>> \o Split(Drop(s, i + 1), c)

\* s.split(c, 1) and s.partition(c): the text before the first c, and after it
Before(s, c) == LET i == Find(s, c) IN IF i = 0 THEN s ELSE SubSeq(s, 1, i - 1)
After(s, c)  == LET i == Find(s, c) IN IF i = 0 THEN <<>> ELSE Drop(s, i + 1)

\* s.rpartition(c)[2]
AfterLast(s, c) == LET i == RFind(s, c) IN IF i = 0 THEN s ELSE Drop(s, i + 1)

\* s.replace(a, b) for single characters
Replace(s, a, b) == [i \in 1..Len(s) |-> IF s[i] = a THEN b ELSE s[i]]

\* s.endswith(suffix)
EndsWith(s, suffix) ==
    /\ Len(suffix) <= Len(s)
    /\ SubSeq(s, Len(s) - Len(suffix) + 1, Len(s)) = suffix

\* the string literals of the source
HTTP_             == <<"h", "t", "t", "p">>
HTTPS_            == <<"h", "t", "t", "p", "s">>
YOUTUBE_COM       == <<"y", "o", "u", "t", "u", "b", "e", ".", "c", "o", "m">>
WWW_YOUTUBE_COM   == <<"w", "w", "w", ".", "y", "o", "u", "t", "u", "b", "e", ".", "c", "o", "m">>
M_YOUTUBE_COM     == <<"m", ".", "y", "o", "u", "t", "u", "b", "e", ".", "c", "o", "m">>
MUSIC_YOUTUBE_COM == <<"m", "u", "s", "i", "c", ".", "y", "o", "u", "t", "u", "b", "e", ".", "c", "o", "m">>
YOUTU_BE          == <<"y", "o", "u", "t", "u", ".", "b", "e">>
SHORTS_           == <<"s", "h", "o", "r", "t", "s">>
EMBED_            == <<"e", "m", "b", "e", "d">>
LIVE_             == <<"l", "i", "v", "e">>
V_                == <<"v">>

-----------------------------------------------------------------------------
(* urllib.parse, as far as _parse_youtube_url uses it (CPython 3.11) *)

SchemeChars == Letters \cup Digits \cup {"+", "-", "."}

\* urlsplit: url[:i] is a scheme when i = url.find(':') > 0, url[0] is a letter
\* and every character before the colon is a scheme character
HasScheme(url) ==
    LET i == Find(url, ":")
    IN  /\ i > 1
        /\ url[1] \in Letters
        /\ \A k \in 1..(i - 1) : url[k] \in SchemeChars

SchemeOf(url)    == IF HasScheme(url) THEN Lower(Before(url, ":")) ELSE <<>>
AfterScheme(url) == IF HasScheme(url) THEN After(url, ":") ELSE url

\* the schemes of uses_params that the generated inputs can carry
UsesParams == {<<>>, HTTP_, HTTPS_}

\* _splitparams: the path without the parameters of its last segment
SplitParams(path) ==
    LET slash == RFind(path, "/")
        i     == FindAny(path, {";"}, IF slash = 0 THEN 1 ELSE slash)
    IN  IF i = 0 THEN path ELSE SubSeq(path, 1, i - 1)

\* urlsplit: after the scheme, "//" opens the netloc, which ends before the
\* first "/", "?" or "#"
HasNetloc(url1) == Len(url1) >= 2 /\ url1[1] = "/" /\ url1[2] = "/"
NetlocOf(url1) ==
    LET d == FindAny(url1, {"/", "?", "#"}, 3)
    IN  IF ~HasNetloc(url1) THEN <<>>
        ELSE IF d = 0 THEN Drop(url1, 3)
        ELSE SubSeq(url1, 3, d - 1)
AfterNetloc(url1) ==
    LET d == FindAny(url1, {"/", "?", "#"}, 3)
    IN  IF ~HasNetloc(url1) THEN url1
        ELSE IF d = 0 THEN <<>>
        ELSE Drop(url1, d)

\* the ParseResult of a scheme, a netloc and the rest (url2): the fragment is cut
\* at "#", then the query at "?", then the parameters at ";". raised is the
\* ValueError urlsplit raises on a netloc with brackets that hold no IPv6
\* address (no generated input holds one)
ParseResult(scheme, netloc, url2) ==
    [raised |-> \E c \in Range(netloc) : c \in {"[", "]"},
     scheme |-> scheme,
     netloc |-> netloc,
     path   |-> IF scheme \in UsesParams
                THEN SplitParams(Before(Before(url2, "#"), "?"))
                ELSE Before(Before(url2, "#"), "?"),
     query  |-> After(Before(url2, "#"), "?")]

UrlSplitRest(scheme, url1) == ParseResult(scheme, NetlocOf(url1), AfterNetloc(url1))

\* urlparse(url)
urlparse(url) == UrlSplitRest(SchemeOf(url), AfterScheme(url))

\* ParseResult.hostname, "" standing for None: the netloc after its userinfo,
\* before its port, in lower case
hostname_of(parsed) == Lower(Before(AfterLast(parsed.netloc, "@"), ":"))

\* the %XX escapes unquote is given here, and the characters they stand for
PercentCodes == {<<"0", "A">>, <<"0", "a">>, <<"2", "0">>, <<"2", "1">>,
                 <<"2", "F">>, <<"2", "f">>}
PercentChar(hex) ==
    CASE hex[1] = "0" -> "\n"
      [] hex = <<"2", "0">> -> " "
      [] hex = <<"2", "1">> -> "!"
      [] OTHER -> "/"

\* urllib.parse.unquote(s): each %XX replaced by its character; a % that no two
\* hex digits follow stays. (Of the 256 escapes the six of PercentCodes are
\* decoded; no other occurs in the strings the parser is run on.)
RECURSIVE unquote(_)
unquote(s) ==
    IF s = <<>> THEN <<>>
    ELSE IF s[1] = "%" /\ Len(s) >= 3 /\ SubSeq(s, 2, 3) \in PercentCodes
    THEN <<PercentChar(SubSeq(s, 2, 3))>> \o unquote(SubSeq(s, 4, Len(s)))
    ELSE <<s[1]>> \o unquote(Tail(s))

\* parse_qs(query).get(key, []): the non-blank values of the name=value pieces
\* whose name is key, + read as a space and %XX unquoted
RECURSIVE QsCollect(_, _)
QsCollect(pieces, key) ==
    IF pieces = <<>> THEN <<>>
    ELSE LET p     == Head(pieces)
             name  == unquote(Replace(Before(p, "="), "+", " "))
             value == unquote(Replace(After(p, "="), "+", " "))
             rest  == QsCollect(Tail(pieces), key)
         IN  IF Find(p, "=") # 0 /\ Len(value) > 0 /\ name = key
             THEN <<value>> \o rest
             ELSE rest

parse_qs_get(query, key) == QsCollect(Split(query, "&"), key)

-----------------------------------------------------------------------------
(* SourcesAPI: the YouTube URL parser *)

\* a str value and None
Str(s)  == [t |-> "str", v |-> s]
NoneVal == [t |-> "none", v |-> <<>>]
\* an exception leaving a function
Raised(e) == [t |-> "raise", v |-> e]
\* Python truthiness of a str-or-None value
Truthy(x) == x.t = "str" /\ Len(x.v) > 0

\* a table that knows the canonical host only
youtube_domains_CanonicalOnly == {YOUTUBE_COM, WWW_YOUTUBE_COM}
youtube_domains == {YOUTUBE_COM, WWW_YOUTUBE_COM, M_YOUTUBE_COM, MUSIC_YOUTUBE_COM, YOUTU_BE}
path_prefixes   == {SHORTS_, EMBED_, LIVE_, V_}

\* re.match(r"^[a-zA-Z0-9_-]+$", video_id): $ also matches before one final newline
IdChars == Letters \cup Digits \cup {"_", "-"}
AllIdChars(s) == Len(s) > 0 /\ \A i \in 1..Len(s) : s[i] \in IdChars
ReMatchId(s) ==
    \/ AllIdChars(s)
    \/ Len(s) > 1 /\ s[Len(s)] = "\n" /\ AllIdChars(SubSeq(s, 1, Len(s) - 1))

\* the format check reduced to non-emptiness
_is_valid_video_id_NonEmpty(video_id) == Len(video_id) > 0

_is_valid_video_id(video_id) == Len(video_id) > 0 /\ ReMatchId(video_id)

\* an empty segment after the prefix sends the parser on to the query
_extract_video_id_from_parsed_url_FallsBack(parsed, hostname) ==
    IF hostname = YOUTU_BE
    THEN LET path == LStrip(parsed.path, {"/"})
         IN  IF Len(path) > 0 THEN Str(Strip(Split(path, "/")[1])) ELSE NoneVal
    ELSE LET path_segments == Split(LStrip(parsed.path, {"/"}), "/")
             v_param       == parse_qs_get(parsed.query, V_)
         IN  IF /\ Len(path_segments) >= 2
                /\ Lower(path_segments[1]) \in path_prefixes
                /\ Len(Strip(path_segments[2])) > 0
             THEN Str(Strip(path_segments[2]))
             ELSE IF Len(parsed.query) > 0 /\ Len(v_param) > 0 /\ Len(v_param[1]) > 0
             THEN Str(Strip(v_param[1]))
             ELSE NoneVal

_extract_video_id_from_parsed_url(parsed, hostname) ==
    IF hostname = YOUTU_BE
    THEN LET path == LStrip(parsed.path, {"/"})
         IN  IF Len(path) > 0 THEN Str(Strip(Split(path, "/")[1])) ELSE NoneVal
    ELSE LET path_segments == Split(LStrip(parsed.path, {"/"}), "/")
             v_param       == parse_qs_get(parsed.query, V_)
         IN  IF Len(path_segments) >= 2 /\ Lower(path_segments[1]) \in path_prefixes
             THEN Str(Strip(path_segments[2]))
             ELSE IF Len(parsed.query) > 0 /\ Len(v_param) > 0 /\ Len(v_param[1]) > 0
             THEN Str(Strip(v_param[1]))
             ELSE NoneVal

\* lines 161-164
CheckedId(video_id) ==
    IF Truthy(video_id) /\ _is_valid_video_id(video_id.v) THEN video_id ELSE NoneVal

\* lines 147-164
ParseWithHost(parsed, hostname) ==
    IF hostname \notin youtube_domains THEN NoneVal
    ELSE CheckedId(_extract_video_id_from_parsed_url(parsed, hostname))

\* lines 144-145
ParseParsed(parsed) ==
    IF parsed.raised THEN Raised("ValueError")
    ELSE ParseWithHost(parsed, hostname_of(parsed))

\* the body of the try block: the id, None, or the exception that left it
ParseBody(url) == ParseParsed(urlparse(Strip(url)))

\* no except clause: whatever left the try block leaves the parser
Except_Reraise(r) == r

\* except (AttributeError, TypeError, ValueError): return None
Except(r) ==
    IF r.t = "raise" /\ r.v \in {"AttributeError", "TypeError", "ValueError"}
    THEN NoneVal
    ELSE r

_parse_youtube_url(url) == Except(ParseBody(url))

-----------------------------------------------------------------------------
(* SourcesAPI.add: the choice of branch (lines 43-59) *)

\* lines 48-59: the branch for the parser's answer
BranchFor(video_id) ==
    IF video_id.t = "raise" THEN [kind |-> "raise", id |-> video_id]
    ELSE IF Truthy(video_id) THEN [kind |-> "VideoReference", id |-> video_id]
    ELSE [kind |-> "GenericUrl", id |-> NoneVal]

\* the URL parser asked before the file system
classify_VideoFirst(source, fskind) ==
    IF Truthy(_parse_youtube_url(source))
    THEN [kind |-> "VideoReference", id |-> _parse_youtube_url(source)]
    ELSE IF fskind = "file" THEN [kind |-> "LocalFile", id |-> NoneVal]
    ELSE [kind |-> "GenericUrl", id |-> NoneVal]

\* fskind is what Path(source) names: path.exists() and path.is_file() holds of
\* a regular file only
classify(source, fskind) ==
    IF fskind = "file" THEN [kind |-> "LocalFile", id |-> NoneVal]
    ELSE BranchFor(_parse_youtube_url(source))

FsKinds == {"file", "dir", "absent"}

-----------------------------------------------------------------------------
(* The strings the classifier is run on *)

RECURSIVE SeqsUpTo(_, _)
\* the sequences over alphabet of length 0..n
SeqsUpTo(alphabet, n) ==
    IF n = 0 THEN {<<>>}
    ELSE LET shorter == SeqsUpTo(alphabet, n - 1)
         IN  shorter \cup {Append(x, c) : x \in shorter, c \in alphabet}

ABC123 == <<"a", "b", "c", "1", "2", "3">>
\* candidate identifiers: every string of up to MaxIdLen characters over a sample
\* of the identifier characters and one foreign character, and the spec's example
CandidateChars == {"a", "Z", "7", "-", "_", "!"}
Candidates     == SeqsUpTo(CandidateChars, MaxIdLen) \cup {ABC123}

\* pieces of the generated URLs
SEP       == <<":", "/", "/">>
SL        == <<"/">>
QV        == <<"?", "v", "=">>
WATCH_    == <<"w", "a", "t", "c", "h">>
EVIL_COM  == <<"e", "v", "i", "l", ".", "c", "o", "m">>
MIXED_WWW == <<"W", "W", "W", ".", "Y", "o", "u", "T", "u", "b", "e", ".", "c", "o", "m">>
Https(host) == HTTPS_ \o SEP \o host

\* scheme and authority: the five known hosts, a host in mixed case, userinfo and
\* a port, a foreign host, an unclosed bracket (urlparse raises), no scheme,
\* no scheme but an authority, leading whitespace
UrlHeads ==
    {Https(YOUTUBE_COM), Https(WWW_YOUTUBE_COM), Https(M_YOUTUBE_COM),
     Https(MUSIC_YOUTUBE_COM), Https(YOUTU_BE)}
    \cup {Https(MIXED_WWW),
          HTTP_ \o SEP \o <<"u", "@">> \o YOUTUBE_COM \o <<":", "8", "0">>,
          Https(EVIL_COM),
          Https(<<"[">> \o YOUTUBE_COM),
          M_YOUTUBE_COM,
          <<"/", "/">> \o YOUTU_BE,
          <<" ">> \o Https(YOUTU_BE)}

\* path, query and fragment around a candidate x
UrlTails(x) ==
    {SL \o WATCH_ \o QV \o x,
     SL \o x,
     SL \o SHORTS_ \o SL \o x,
     SL \o EMBED_ \o SL \o x,
     SL \o LIVE_ \o SL \o x,
     SL \o V_ \o SL \o x,
     SL \o <<"S", "h", "o", "r", "t", "s">> \o SL \o x \o SL,
     SL \o EMBED_ \o SL \o QV \o x,
     SL \o EMBED_ \o QV \o x,
     SL \o WATCH_ \o QV \o x \o <<"%", "0", "A">>,
     SL \o WATCH_ \o QV \o <<"&", "v", "=">> \o x,
     SL \o WATCH_ \o <<"?", "x", "=">> \o x,
     QV \o x,
     SL \o SHORTS_ \o SL \o x \o QV \o <<"a">>,
     SL \o WATCH_ \o QV \o x \o <<"#", "f">>,
     SL \o x \o <<";", "p">>}

NOT_A_URL == <<"n", "o", "t", " ", "a", " ", "u", "r", "l", " ", "a", "t", " ", "a", "l", "l">>
\* the URLs built around candidate x, and two strings that are no URL
RawInputs(x) ==
    {h \o t : h \in UrlHeads, t \in UrlTails(x)} \cup {NOT_A_URL, <<>>}

-----------------------------------------------------------------------------
(* SpecClassify: the classifier run once on an input *)

ClassifyInit ==
    /\ cl_x \in Candidates
    /\ cl_raw \in RawInputs(cl_x)
    /\ cl_fs \in FsKinds
    /\ cl_parse = [t |-> "uncalled", v |-> <<>>]
    /\ cl_out = [kind |-> "pending", id |-> NoneVal]
    /\ cl_done = FALSE

\* lines 43-59: the parser is called only when the source is no regular file
Classify ==
    /\ ~cl_done
    /\ cl_parse' = IF cl_fs = "file" THEN cl_parse ELSE _parse_youtube_url(cl_raw)
    /\ cl_out' = classify(cl_raw, cl_fs)
    /\ cl_done' = TRUE
    /\ UNCHANGED <<cl_x, cl_raw, cl_fs>>

-----------------------------------------------------------------------------
(* The loosely typed replies of the remote call boundary, and extract_id *)

\* Python values: None, str, int, list
IntVal(n) == [t |-> "int", v |-> n]
List(xs)  == [t |-> "list", v |-> xs]

\* isinstance(data, str) dropped: any value that is no list is returned
RECURSIVE extract_id_AnyScalar(_)
extract_id_AnyScalar(data) ==
    IF data.t = "list"
    THEN (IF Len(data.v) > 0 THEN extract_id_AnyScalar(data.v[1]) ELSE NoneVal)
    ELSE data

\* _register_file_source.extract_id (lines 269-275)
RECURSIVE extract_id(_)
extract_id(data) ==
    IF data.t = "str" THEN data
    ELSE IF data.t = "list" /\ Len(data.v) > 0 THEN extract_id(data.v[1])
    ELSE NoneVal

\* the replies extract_id is run on: a scalar, None or [] under up to MaxDepth
\* levels of lists, each level holding it alone, first of two or second of two
ReplyLeaves   == {NoneVal, Str("id-7"), Str(""), IntVal(7), List(<<>>)}
ReplySiblings == {NoneVal, Str("id-8")}
Wraps(x) ==
    {List(<<x>>)}
    \cup {List(<<x, y>>) : y \in ReplySiblings}
    \cup {List(<<y, x>>) : y \in ReplySiblings}

RECURSIVE Nested(_)
Nested(d) ==
    IF d = 0 THEN ReplyLeaves
    ELSE LET inner == Nested(d - 1) IN inner \cup UNION {Wraps(x) : x \in inner}

UnwrapInit ==
    /\ uw_in \in Nested(MaxDepth)
    /\ uw_out = NoneVal
    /\ uw_done = FALSE

\* source_id = extract_id(result)
Extract ==
    /\ ~uw_done
    /\ uw_out' = extract_id(uw_in)
    /\ uw_done' = TRUE
    /\ UNCHANGED uw_in

-----------------------------------------------------------------------------
(* auth.py: the cookie filters *)

DOT_GOOGLE_COM            == <<".", "g", "o", "o", "g", "l", "e", ".", "c", "o", "m">>
NOTEBOOKLM_GOOGLE_COM     == <<"n", "o", "t", "e", "b", "o", "o", "k", "l", "m", ".", "g", "o", "o", "g", "l", "e", ".", "c", "o", "m">>
DOT_GOOGLEUSERCONTENT_COM == <<".", "g", "o", "o", "g", "l", "e", "u", "s", "e", "r", "c", "o", "n", "t", "e", "n", "t", ".", "c", "o", "m">>
DOT_USERCONTENT_GOOGLE_COM == <<".", "u", "s", "e", "r", "c", "o", "n", "t", "e", "n", "t", ".", "g", "o", "o", "g", "l", "e", ".", "c", "o", "m">>

MINIMUM_REQUIRED_COOKIES == {"SID"}
ALLOWED_COOKIE_DOMAINS ==
    {DOT_GOOGLE_COM, NOTEBOOKLM_GOOGLE_COM, DOT_GOOGLEUSERCONTENT_COM}

\* a dict[str, str] in insertion order: a sequence of <<key, value>>
Keys(d) == {d[i][1] : i \in 1..Len(d)}
DictGet(d, k) == d[CHOOSE i \in 1..Len(d) : d[i][1] = k][2]
\* d[k] = v: a key already there keeps its place
DictPut(d, k, v) ==
    IF k \in Keys(d)
    THEN [i \in 1..Len(d) |-> IF d[i][1] = k THEN <<k, v>> ELSE d[i]]
    ELSE Append(d, <<k, v>>)

\* the loop with the suffix test of the download path in place of `in`
RECURSIVE RpcCookieLoop_Suffix(_, _)
RpcCookieLoop_Suffix(list, cookies) ==
    IF list = <<>> THEN cookies
    ELSE LET cookie == Head(list)
         IN  RpcCookieLoop_Suffix(Tail(list),
                 IF /\ \E d \in ALLOWED_COOKIE_DOMAINS :
                          cookie.domain = d \/ EndsWith(cookie.domain, d)
                    /\ cookie.name # ""
                 THEN DictPut(cookies, cookie.name, cookie.value)
                 ELSE cookies)

\* the loop of extract_cookies_from_storage (lines 121-128); a cookie without a
\* domain, name or value has "" there (cookie.get's default, or a None as falsy)
RECURSIVE RpcCookieLoop(_, _)
RpcCookieLoop(list, cookies) ==
    IF list = <<>> THEN cookies
    ELSE LET cookie == Head(list)
         IN  RpcCookieLoop(Tail(list),
                 IF cookie.domain \in ALLOWED_COOKIE_DOMAINS /\ cookie.name # ""
                 THEN DictPut(cookies, cookie.name, cookie.value)
                 ELSE cookies)

\* extract_cookies_from_storage: the dict, or ValueError when SID is missing
extract_cookies_from_storage(storage_cookies) ==
    LET cookies == RpcCookieLoop(storage_cookies, <<>>)
    IN  IF MINIMUM_REQUIRED_COOKIES \ Keys(cookies) # {}
        THEN Raised("ValueError")
        ELSE [t |-> "dict", v |-> cookies]

allowed_suffixes ==
    {DOT_GOOGLE_COM, DOT_GOOGLEUSERCONTENT_COM, DOT_USERCONTENT_GOOGLE_COM}

\* an allow-list of the content hosts alone
_is_allowed_cookie_domain_ContentOnly(domain) ==
    \/ EndsWith(domain, DOT_GOOGLEUSERCONTENT_COM)
    \/ EndsWith(domain, DOT_USERCONTENT_GOOGLE_COM)

_is_allowed_cookie_domain(domain) ==
    \/ domain \in ALLOWED_COOKIE_DOMAINS
    \/ \E suffix \in allowed_suffixes : domain = suffix \/ EndsWith(domain, suffix)

\* httpx.Cookies.set(name, value, domain=domain): one cookie per name and domain
JarSet(jar, name, value, domain) ==
    LET c == [name |-> name, value |-> value, domain |-> domain]
    IN  IF \E i \in 1..Len(jar) : jar[i].name = name /\ jar[i].domain = domain
        THEN [i \in 1..Len(jar) |->
                 IF jar[i].name = name /\ jar[i].domain = domain THEN c ELSE jar[i]]
        ELSE Append(jar, c)

\* the loop without the test of the value
RECURSIVE DownloadCookieLoop_AnyValue(_, _)
DownloadCookieLoop_AnyValue(list, jar) ==
    IF list = <<>> THEN jar
    ELSE LET cookie == Head(list)
         IN  DownloadCookieLoop_AnyValue(Tail(list),
                 IF _is_allowed_cookie_domain(cookie.domain) /\ cookie.name # ""
                 THEN JarSet(jar, cookie.name, cookie.value, cookie.domain)
                 ELSE jar)

\* the loop of load_httpx_cookies (lines 293-304)
RECURSIVE DownloadCookieLoop(_, _)
DownloadCookieLoop(list, jar) ==
    IF list = <<>> THEN jar
    ELSE LET cookie == Head(list)
         IN  DownloadCookieLoop(Tail(list),
                 IF /\ _is_allowed_cookie_domain(cookie.domain)
                    /\ cookie.name # ""
                    /\ cookie.value # ""
                 THEN JarSet(jar, cookie.name, cookie.value, cookie.domain)
                 ELSE jar)

\* load_httpx_cookies on the parsed storage state: the jar, or ValueError
load_httpx_cookies(storage_cookies) ==
    LET jar == DownloadCookieLoop(storage_cookies, <<>>)
        cookie_names == {jar[i].name : i \in 1..Len(jar)}
    IN  IF MINIMUM_REQUIRED_COOKIES \ cookie_names # {}
        THEN Raised("ValueError")
        ELSE [t |-> "jar", v |-> jar]

\* the storage states the filters are run on
LH3_GOOGLE_COM  == <<"l", "h", "3", ".", "g", "o", "o", "g", "l", "e", ".", "c", "o", "m">>
EVIL_GOOGLE_COM == <<"e", "v", "i", "l", "-", "g", "o", "o", "g", "l", "e", ".", "c", "o", "m">>
GOOGLE_COM      == <<"g", "o", "o", "g", "l", "e", ".", "c", "o", "m">>
LH3_GOOGLEUSERCONTENT_COM == <<"l", "h", "3", ".", "g", "o", "o", "g", "l", "e", "u", "s", "e", "r", "c", "o", "n", "t", "e", "n", "t", ".", "c", "o", "m">>
CookieDomains ==
    {DOT_GOOGLE_COM, NOTEBOOKLM_GOOGLE_COM, DOT_GOOGLEUSERCONTENT_COM,
     LH3_GOOGLE_COM, EVIL_GOOGLE_COM, GOOGLE_COM, LH3_GOOGLEUSERCONTENT_COM}
CookieNames  == {"SID", "HSID", ""}
CookieValues == {"", "x"}
Cookies == [domain : CookieDomains, name : CookieNames, value : CookieValues]
CookieLists == SeqsUpTo(Cookies, MaxCookies)

CookiesInit ==
    /\ ck_list \in CookieLists
    /\ ck_rpc = NoneVal
    /\ ck_dl = NoneVal
    /\ ck_done = FALSE

\* both entry points run on the same storage state
FilterCookies ==
    /\ ~ck_done
    /\ ck_rpc' = extract_cookies_from_storage(ck_list)
    /\ ck_dl' = load_httpx_cookies(ck_list)
    /\ ck_done' = TRUE
    /\ UNCHANGED ck_list

-----------------------------------------------------------------------------
(* SourcesAPI.add and the resumable upload: requests, replies, results *)

UPLOAD_URL == "https://upload.notebooklm.google.com/upload/notebooklm/v1/sources"

\* AuthTokens.cookie_header: "; ".join(f"{k}={v}" ...), as its pieces
RECURSIVE cookie_header(_)
cookie_header(cookies) ==
    IF cookies = <<>> THEN <<>>
    ELSE <<cookies[1][1], "=", cookies[1][2]>>
         \o (IF Len(cookies) > 1 THEN <<"; ">> ELSE <<>>)
         \o cookie_header(Tail(cookies))

\* the last ten elements of every add-source parameter list
TenTrailing ==
    List(<<IntVal(1), NoneVal, NoneVal, NoneVal, NoneVal, NoneVal, NoneVal, NoneVal,
           NoneVal, NoneVal, List(<<IntVal(1)>>)>>)

\* self._core.rpc_call(method, params, source_path=..., allow_null=True)
RpcCall(method, params, notebook_id) ==
    [kind        |-> "rpc",
     method      |-> method,
     params      |-> params,
     source_path |-> <<"/notebook/", notebook_id>>,
     allow_null  |-> TRUE]

\* _add_youtube_source (lines 219-230)
YoutubeCall(notebook_id, url) ==
    RpcCall("ADD_SOURCE",
            List(<<List(<<List(<<NoneVal, NoneVal, NoneVal, NoneVal, NoneVal, NoneVal,
                                 NoneVal, List(<<Str(url)>>), NoneVal, NoneVal,
                                 IntVal(1)>>)>>),
                   Str(notebook_id), List(<<IntVal(2)>>), TenTrailing>>),
            notebook_id)

\* _add_url_source (lines 235-246)
UrlCall(notebook_id, url) ==
    RpcCall("ADD_SOURCE",
            List(<<List(<<List(<<NoneVal, NoneVal, List(<<Str(url)>>), NoneVal, NoneVal,
                                 NoneVal, NoneVal, NoneVal, NoneVal, NoneVal,
                                 IntVal(1)>>)>>),
                   Str(notebook_id), List(<<IntVal(2)>>), TenTrailing>>),
            notebook_id)

\* _register_file_source (lines 251-263)
RegisterCall(notebook_id, filename) ==
    RpcCall("ADD_SOURCE_FILE",
            List(<<List(<<List(<<Str(filename)>>)>>),
                   Str(notebook_id), List(<<IntVal(2)>>), TenTrailing>>),
            notebook_id)

\* the notebook and the source id in each other's place
NegotiateCall_IdsSwapped(a, notebook_id, filename, size, sid) ==
    [kind    |-> "negotiate",
     url     |-> <<UPLOAD_URL, "?authuser=0">>,
     headers |-> [Cookie         |-> cookie_header(a.cookies),
                  Origin         |-> "https://notebooklm.google.com",
                  Referer        |-> "https://notebooklm.google.com/",
                  command        |-> "start",
                  content_length |-> size,
                  protocol       |-> "resumable"],
     body    |-> [PROJECT_ID |-> sid, SOURCE_NAME |-> filename, SOURCE_ID |-> notebook_id]]

\* _start_resumable_upload (lines 293-316): the POST that starts the session
NegotiateCall(a, notebook_id, filename, size, sid) ==
    [kind    |-> "negotiate",
     url     |-> <<UPLOAD_URL, "?authuser=0">>,
     headers |-> [Cookie         |-> cookie_header(a.cookies),
                  Origin         |-> "https://notebooklm.google.com",
                  Referer        |-> "https://notebooklm.google.com/",
                  command        |-> "start",
                  content_length |-> size,
                  protocol       |-> "resumable"],
     body    |-> [PROJECT_ID |-> notebook_id, SOURCE_NAME |-> filename, SOURCE_ID |-> sid]]

\* the transfer sent without the session's cookies
TransferCall_NoCookie(a, url) ==
    [kind    |-> "transfer",
     url     |-> url,
     headers |-> [Cookie  |-> <<>>,
                  Origin  |-> "https://notebooklm.google.com",
                  Referer |-> "https://notebooklm.google.com/",
                  command |-> "upload, finalize",
                  offset  |-> 0]]

\* _upload_file_streaming (lines 337-355): the POST that carries the file
TransferCall(a, url) ==
    [kind    |-> "transfer",
     url     |-> url,
     headers |-> [Cookie  |-> cookie_header(a.cookies),
                  Origin  |-> "https://notebooklm.google.com",
                  Referer |-> "https://notebooklm.google.com/",
                  command |-> "upload, finalize",
                  offset  |-> 0]]

\* which request a logged call is
CallKind(c) ==
    IF c.kind # "rpc" THEN c.kind
    ELSE IF c.method = "ADD_SOURCE_FILE" THEN "register"
    ELSE IF c.method = "ADD_SOURCE" THEN "add_source"
    ELSE c.method
CallKinds(cs) == [i \in 1..Len(cs) |-> CallKind(cs[i])]

\* what add gives its caller
NoResult          == [kind |-> "none", v |-> "", at |-> ""]
ReturnRec(v)      == [kind |-> "return", v |-> v, at |-> ""]
RaiseRec(err, at) == [kind |-> "raise", v |-> err, at |-> at]

\* Path(source).name: the last component
PathName(source) == AfterLast(RStrip(source, {"/"}), "/")

\* isinstance(result, list) dropped: whatever extract_id finds is the id
RegisterResult_NoListGuard(reply) ==
    IF Truthy(extract_id(reply)) THEN extract_id(reply) ELSE Raised("SourceAddError")

\* lines 267-281: the source id in the register reply, or SourceAddError
RegisterResult(reply) ==
    IF reply.t = "list" /\ Len(reply.v) > 0 /\ Truthy(extract_id(reply))
    THEN extract_id(reply)
    ELSE Raised("SourceAddError")

\* a read that always fills its buffer
f_read_Fixed(remaining) == IF remaining > 0 THEN READ_SIZE ELSE 0

\* f.read(65536) with `remaining` bytes left in the file: the chunk's length
f_read(remaining) == IF remaining < READ_SIZE THEN remaining ELSE READ_SIZE

RECURSIVE Sum(_)
Sum(ns) == IF ns = <<>> THEN 0 ELSE Head(ns) + Sum(Tail(ns))

-----------------------------------------------------------------------------
(* What the caller and the world may supply *)

Notebooks == {"nb1", "nb2"}
DOC_PDF   == <<"d", "o", "c", ".", "p", "d", "f">>
TMP_A_TXT == <<"/", "t", "m", "p", "/", "a", ".", "t", "x", "t">>
\* the sources add is called with: two plain paths, two video URLs, a video URL
\* without an id, a foreign URL, no URL at all, a URL urlparse rejects
AddInputs ==
    {DOC_PDF,
     TMP_A_TXT,
     Https(YOUTU_BE) \o SL \o ABC123,
     Https(M_YOUTUBE_COM) \o SL \o WATCH_ \o QV \o ABC123,
     Https(YOUTUBE_COM) \o SL \o WATCH_ \o QV,
     Https(EVIL_COM) \o SL \o <<"a">>,
     NOT_A_URL,
     Https(<<"[">> \o YOUTUBE_COM) \o SL \o WATCH_ \o QV \o <<"a">>}

\* sizes around the multiples of the chunk size
FileSizes ==
    {k * READ_SIZE + d : k \in 0..MaxFullChunks, d \in {0, 1, READ_SIZE - 1}}

AuthContexts ==
    {[cookies |-> <<<<"SID", "x">>>>, csrf_token |-> "TOKEN1", session_id |-> "TOKEN2"],
     [cookies |-> <<<<"SID", "x">>, <<"HSID", "y">>>>,
      csrf_token |-> "TOKEN1", session_id |-> "TOKEN2"]}

\* the ids the service hands out, and the session URLs of its upload endpoint
ServiceIds == {"id-7", "id-9"}
UploadUrls == {"https://upload.example/session-A", "https://upload.example/session-B"}

\* how the service may word a reply that carries the id it registered: the id
\* is the first string of the first-element chain, or not on that chain at all
IdReplies(id) ==
    {Str(id),
     List(<<Str(id)>>),
     List(<<List(<<Str(id)>>)>>),
     List(<<List(<<List(<<Str(id)>>)>>)>>),
     List(<<List(<<List(<<List(<<Str(id)>>)>>)>>)>>),
     List(<<List(<<Str(id), NoneVal>>), Str("title")>>),
     List(<<NoneVal, Str(id)>>),
     List(<<IntVal(7), Str(id)>>)}
\* replies that carry no id
EmptyReplies ==
    {NoneVal, List(<<>>), List(<<List(<<>>)>>), List(<<NoneVal>>), List(<<Str("")>>)}

\* rpc_call for ADD_SOURCE_FILE: it raises or returns; srv is the id the service
\* registered on the way ("" when it registered none)
RegisterOutcomes ==
    {[raise |-> TRUE, srv |-> "", reply |-> NoneVal]}
    \cup {[raise |-> TRUE, srv |-> id, reply |-> NoneVal] : id \in ServiceIds}
    \cup {[raise |-> FALSE, srv |-> "", reply |-> r] : r \in EmptyReplies}
    \cup UNION {{[raise |-> FALSE, srv |-> id, reply |-> r] : r \in IdReplies(id)} :
                id \in ServiceIds}

\* rpc_call for ADD_SOURCE
AddSourceOutcomes ==
    {[raise |-> TRUE, reply |-> NoneVal]}
    \cup {[raise |-> FALSE, reply |-> r] :
            r \in EmptyReplies \cup {Str("ok"), IntVal(7)} \cup IdReplies("id-7")}

\* the upload endpoint's answer to the session start: the request fails in
\* transport (or times out), is rejected by status, or succeeds with the header
\* x-goog-upload-url absent (""), or present
NegotiateOutcomes ==
    {[ok |-> "transport", url |-> ""], [ok |-> "status", url |-> ""], [ok |-> "ok", url |-> ""]}
    \cup {[ok |-> "ok", url |-> u] : u \in UploadUrls}

\* and to the transfer
TransferOutcomes == {"transport", "status", "ok"}

-----------------------------------------------------------------------------
(* Spec: one call of SourcesAPI.add, the services it talks to, the file system *)

AddInit ==
    /\ pc = "idle"
    /\ nb = ""
    /\ raw = <<>>
    /\ fs \in FsKinds
    /\ fsAtAdd = "unknown"
    /\ branch = "none"
    /\ diskSize \in (IF fs = "file" THEN FileSizes ELSE {0})
    /\ file_size = 0
    /\ source_id = ""
    /\ upload_url = ""
    /\ sent = <<>>
    /\ calls = <<>>
    /\ replies = <<>>
    /\ registered = {}
    /\ result = NoResult
    /\ auth \in AuthContexts

\* a failed register request sent once more
Abort_Retry(err, at) ==
    IF at = "register" /\ Len(calls) < 2
    THEN /\ pc' = pc
         /\ calls' = Append(calls, calls[Len(calls)])
         /\ UNCHANGED <<result, file_size, source_id, upload_url, sent>>
    ELSE /\ pc' = "done"
         /\ result' = RaiseRec(err, at)
         /\ UNCHANGED <<calls, file_size, source_id, upload_url, sent>>

\* the registration deleted again when a later phase fails
Abort_Compensates(err, at) ==
    /\ pc' = "done"
    /\ result' = RaiseRec(err, at)
    /\ calls' = IF at \in {"negotiate", "transfer"}
                THEN Append(calls, RpcCall("DELETE_SOURCE",
                                List(<<List(<<List(<<Str(source_id)>>)>>)>>), nb))
                ELSE calls
    /\ UNCHANGED <<file_size, source_id, upload_url, sent>>

\* An exception leaves add: neither add nor _add_file_source has an except
\* clause, so no further statement of theirs runs (lines 45-63, 103-122)
Abort(err, at) ==
    /\ pc' = "done"
    /\ result' = RaiseRec(err, at)
    /\ UNCHANGED <<calls, file_size, source_id, upload_url, sent>>

\* add is called (lines 42-59, to the first await of the branch it takes)
Add ==
    /\ pc = "idle"
    /\ \E n \in Notebooks, s \in AddInputs :
        \E k \in {classify(s, fs)} :
            /\ nb' = n
            /\ raw' = s
            /\ fsAtAdd' = fs
            /\ CASE k.kind = "LocalFile" ->
                      /\ pc' = "file_check"
                      /\ branch' = "file"
                      /\ UNCHANGED <<calls, result>>
                 [] k.kind = "VideoReference" ->
                      /\ pc' = "await_youtube"
                      /\ branch' = "video"
                      /\ calls' = Append(calls, YoutubeCall(n, s))
                      /\ UNCHANGED result
                 [] k.kind = "GenericUrl" ->
                      /\ pc' = "await_url"
                      /\ branch' = "url"
                      /\ calls' = Append(calls, UrlCall(n, s))
                      /\ UNCHANGED result
                 [] OTHER ->
                      /\ pc' = "done"
                      /\ branch' = "none"
                      /\ result' = RaiseRec(k.id.v, "classify")
                      /\ UNCHANGED calls
    /\ UNCHANGED <<fs, diskSize, file_size, source_id, upload_url, sent, replies,
                   registered, auth>>

\* _add_file_source without its own look at the file
FileCheck_Skipped ==
    /\ pc = "file_check"
    /\ pc' = "file_stat"
    /\ UNCHANGED <<result, calls, file_size, source_id, upload_url, sent>>
    /\ UNCHANGED <<nb, raw, fs, fsAtAdd, branch, diskSize, replies, registered, auth>>

\* _add_file_source, lines 103-104: if not file_path.exists()
FileCheck ==
    /\ pc = "file_check"
    /\ IF fs = "absent"
       THEN Abort("SourceAddError", "precheck")
       ELSE /\ pc' = "file_stat"
            /\ UNCHANGED <<result, calls, file_size, source_id, upload_url, sent>>
    /\ UNCHANGED <<nb, raw, fs, fsAtAdd, branch, diskSize, replies, registered, auth>>

\* lines 106-110: stat (which raises when the file is gone), then the register
\* request
FileStat ==
    /\ pc = "file_stat"
    /\ IF fs = "absent"
       THEN Abort("FileNotFoundError", "precheck")
       ELSE /\ file_size' = diskSize
            /\ calls' = Append(calls, RegisterCall(nb, PathName(raw)))
            /\ pc' = "await_register"
            /\ UNCHANGED <<result, source_id, upload_url, sent>>
    /\ UNCHANGED <<nb, raw, fs, fsAtAdd, branch, diskSize, replies, registered, auth>>

\* lines 258-281, then 113-116 and 293-316: the register call answers; on an id
\* the session start is posted
RegisterReply ==
    /\ pc = "await_register"
    /\ \E o \in RegisterOutcomes :
        /\ replies' = Append(replies, [to |-> "register", raise |-> o.raise, reply |-> o.reply])
        /\ registered' = IF o.srv = "" THEN registered ELSE registered \cup {o.srv}
        /\ IF o.raise
           THEN Abort("RPCError", "register")
           ELSE LET r == RegisterResult(o.reply)
                IN  IF r.t = "raise"
                    THEN Abort(r.v, "register")
                    ELSE /\ source_id' = r.v
                         /\ calls' = Append(calls,
                                NegotiateCall(auth, nb, PathName(raw), file_size, r.v))
                         /\ pc' = "await_negotiate"
                         /\ UNCHANGED <<result, file_size, upload_url, sent>>
    /\ UNCHANGED <<nb, raw, fs, fsAtAdd, branch, diskSize, auth>>

\* lines 316-325, then 118 and 337-355: the session start answers; on a session
\* URL the transfer is posted to it
NegotiateReply ==
    /\ pc = "await_negotiate"
    /\ \E o \in NegotiateOutcomes :
        /\ replies' = Append(replies, [to |-> "negotiate", raise |-> o.ok # "ok", reply |-> Str(o.url)])
        /\ CASE o.ok = "transport" -> Abort("TransportError", "negotiate")
             [] o.ok = "status" -> Abort("HTTPStatusError", "negotiate")
             [] o.ok = "ok" /\ o.url = "" -> Abort("SourceAddError", "negotiate")
             [] OTHER ->
                  /\ upload_url' = o.url
                  /\ calls' = Append(calls, TransferCall(auth, o.url))
                  /\ pc' = "stream_open"
                  /\ UNCHANGED <<result, file_size, source_id, sent>>
    /\ UNCHANGED <<nb, raw, fs, fsAtAdd, branch, diskSize, registered, auth>>

\* file_stream, line 350: the request body is first asked for a chunk and opens
\* the file
StreamOpen ==
    /\ pc = "stream_open"
    /\ IF fs = "absent"
       THEN Abort("FileNotFoundError", "transfer")
       ELSE /\ pc' = "stream_read"
            /\ UNCHANGED <<result, calls, file_size, source_id, upload_url, sent>>
    /\ UNCHANGED <<nb, raw, fs, fsAtAdd, branch, diskSize, replies, registered, auth>>

\* file_stream, lines 351-352: while chunk := f.read(65536): yield chunk
ReadChunk ==
    /\ pc = "stream_read"
    /\ LET chunk == f_read(diskSize - Sum(sent))
       IN  IF chunk > 0
           THEN sent' = Append(sent, chunk) /\ pc' = pc
           ELSE sent' = sent /\ pc' = "await_transfer"
    /\ UNCHANGED <<nb, raw, fs, fsAtAdd, branch, diskSize, file_size, source_id,
                   upload_url, calls, replies, registered, result, auth>>

\* the optional poll for completion (line 120) made after the transfer
TransferReply_Polls ==
    /\ pc \in {"stream_read", "await_transfer"}
    /\ \E o \in TransferOutcomes :
        /\ o # "transport" => pc = "await_transfer"
        /\ replies' = Append(replies, [to |-> "transfer", raise |-> o # "ok", reply |-> NoneVal])
        /\ CASE o = "transport" -> Abort("TransportError", "transfer")
             [] o = "status" -> Abort("HTTPStatusError", "transfer")
             [] OTHER ->
                  /\ result' = ReturnRec(source_id)
                  /\ pc' = "done"
                  /\ calls' = Append(calls, RpcCall("GET_SOURCE",
                                  List(<<List(<<Str(source_id)>>)>>), nb))
                  /\ UNCHANGED <<file_size, source_id, upload_url, sent>>
    /\ UNCHANGED <<nb, raw, fs, fsAtAdd, branch, diskSize, registered, auth>>

\* lines 355-356, then 122: the transfer answers once the body is sent, or the
\* connection fails at any time
TransferReply ==
    /\ pc \in {"stream_read", "await_transfer"}
    /\ \E o \in TransferOutcomes :
        /\ o # "transport" => pc = "await_transfer"
        /\ replies' = Append(replies, [to |-> "transfer", raise |-> o # "ok", reply |-> NoneVal])
        /\ CASE o = "transport" -> Abort("TransportError", "transfer")
             [] o = "status" -> Abort("HTTPStatusError", "transfer")
             [] OTHER ->
                  /\ result' = ReturnRec(source_id)
                  /\ pc' = "done"
                  /\ UNCHANGED <<calls, file_size, source_id, upload_url, sent>>
    /\ UNCHANGED <<nb, raw, fs, fsAtAdd, branch, diskSize, registered, auth>>

\* add, lines 50-56: the video call answers; its result is not looked at
YoutubeReply ==
    /\ pc = "await_youtube"
    /\ \E o \in AddSourceOutcomes :
        /\ replies' = Append(replies, [to |-> "add_source", raise |-> o.raise, reply |-> o.reply])
        /\ IF o.raise
           THEN Abort("RPCError", "add_source")
           ELSE /\ result' = ReturnRec("youtube_source_added")
                /\ pc' = "done"
                /\ UNCHANGED <<calls, file_size, source_id, upload_url, sent>>
    /\ UNCHANGED <<nb, raw, fs, fsAtAdd, branch, diskSize, registered, auth>>

\* add, lines 59-63: the URL call answers
UrlReply ==
    /\ pc = "await_url"
    /\ \E o \in AddSourceOutcomes :
        /\ replies' = Append(replies, [to |-> "add_source", raise |-> o.raise, reply |-> o.reply])
        /\ IF o.raise
           THEN Abort("RPCError", "add_source")
           ELSE IF ~(o.reply.t = "list" /\ Len(o.reply.v) > 0)
           THEN Abort("SourceAddError", "add_source")
           ELSE /\ result' = ReturnRec("url_source_added")
                /\ pc' = "done"
                /\ UNCHANGED <<calls, file_size, source_id, upload_url, sent>>
    /\ UNCHANGED <<nb, raw, fs, fsAtAdd, branch, diskSize, registered, auth>>

\* another process removes the file while add runs
EnvUnlink ==
    /\ pc \notin {"idle", "done"}
    /\ fs = "file"
    /\ fs' = "absent"
    /\ UNCHANGED <<pc, nb, raw, fsAtAdd, branch, diskSize, file_size, source_id,
                   upload_url, sent, calls, replies, registered, result, auth>>

-----------------------------------------------------------------------------
(* SourcesAPI.list and SourcesAPI.delete *)

\* self._core.rpc_call(method, params, source_path=...): allow_null not given
RpcCallPlain(method, params, notebook_id) ==
    [kind        |-> "rpc",
     method      |-> method,
     params      |-> params,
     source_path |-> <<"/notebook/", notebook_id>>,
     allow_null  |-> "default"]

\* list (lines 74-78)
ListCall(notebook_id) ==
    RpcCallPlain("LIST_SOURCES", List(<<Str(notebook_id)>>), notebook_id)
\* delete (lines 87-91)
DeleteCall(notebook_id, sid) ==
    RpcCallPlain("DELETE_SOURCE", List(<<Str(notebook_id), Str(sid)>>), notebook_id)

NoOp == [name |-> "none", notebook_id |-> "", source_id |-> ""]

\* rpc_call for LIST_SOURCES and DELETE_SOURCE: it raises or returns
RpcOutcomes ==
    {[raise |-> TRUE, reply |-> NoneVal]}
    \cup {[raise |-> FALSE, reply |-> r] :
            r \in {NoneVal, List(<<>>), List(<<List(<<Str("id-7")>>)>>)}}

\* list is called: to its await
ListSources ==
    /\ pc = "idle"
    /\ \E n \in Notebooks :
        /\ op' = [name |-> "list", notebook_id |-> n, source_id |-> ""]
        /\ calls' = Append(calls, ListCall(n))
    /\ pc' = "await_list"
    /\ UNCHANGED <<nb, raw, fs, fsAtAdd, branch, diskSize, file_size, source_id,
                   upload_url, sent, replies, registered, result, auth>>

\* the call answers: list returns what rpc_call returned, or rpc_call's
\* exception leaves list
ListReply ==
    /\ pc = "await_list"
    /\ \E o \in RpcOutcomes :
        /\ replies' = Append(replies, [to |-> "list", raise |-> o.raise, reply |-> o.reply])
        /\ result' = IF o.raise THEN RaiseRec("RPCError", "list")
                     ELSE [kind |-> "return", v |-> o.reply, at |-> ""]
    /\ pc' = "done"
    /\ UNCHANGED <<nb, raw, fs, fsAtAdd, branch, diskSize, file_size, source_id,
                   upload_url, sent, calls, registered, auth, op>>

\* delete is called: to its await
Delete ==
    /\ pc = "idle"
    /\ \E n \in Notebooks, sid \in ServiceIds :
        /\ op' = [name |-> "delete", notebook_id |-> n, source_id |-> sid]
        /\ calls' = Append(calls, DeleteCall(n, sid))
    /\ pc' = "await_delete"
    /\ UNCHANGED <<nb, raw, fs, fsAtAdd, branch, diskSize, file_size, source_id,
                   upload_url, sent, replies, registered, result, auth>>

\* tokens dropped when the call fails
DeleteReply_DropsTokenOnFailure ==
    /\ pc = "await_delete"
    /\ \E o \in RpcOutcomes :
        /\ replies' = Append(replies, [to |-> "delete", raise |-> o.raise, reply |-> o.reply])
        /\ result' = IF o.raise THEN RaiseRec("RPCError", "delete")
                     ELSE [kind |-> "return", v |-> NoneVal, at |-> ""]
        /\ auth' = IF o.raise THEN [auth EXCEPT !.csrf_token = ""] ELSE auth
    /\ pc' = "done"
    /\ UNCHANGED <<nb, raw, fs, fsAtAdd, branch, diskSize, file_size, source_id,
                   upload_url, sent, calls, registered, op>>

\* the call answers: delete returns None whatever rpc_call returned, or
\* rpc_call's exception leaves delete
DeleteReply ==
    /\ pc = "await_delete"
    /\ \E o \in RpcOutcomes :
        /\ replies' = Append(replies, [to |-> "delete", raise |-> o.raise, reply |-> o.reply])
        /\ result' = IF o.raise THEN RaiseRec("RPCError", "delete")
                     ELSE [kind |-> "return", v |-> NoneVal, at |-> ""]
    /\ pc' = "done"
    /\ UNCHANGED <<nb, raw, fs, fsAtAdd, branch, diskSize, file_size, source_id,
                   upload_url, sent, calls, registered, auth, op>>

-----------------------------------------------------------------------------
(* Two calls of _add_file_source under way on one SourcesAPI (lines 93-122).   *)
(* A coroutine runs alone from one await to the next; the other one may run    *)
(* while it is suspended.                                                      *)

CcCalls == {1, 2}

\* the local variables live on the object, one set for all calls
Frame_OnSelf(c) == 1

\* the frame of call c: notebook_id, file_path, file_size, source_id and
\* upload_url are parameters and locals of _add_file_source, one set a call
Frame(c) == c

GONE_PDF == <<"g", "o", "n", "e", ".", "p", "d", "f">>
\* the file system under the two calls: two files, one path with nothing at it
CcPaths == {DOC_PDF, TMP_A_TXT, GONE_PDF}
PathExists(path) == path # GONE_PDF
StatSize(path) == IF path = DOC_PDF THEN 1 ELSE READ_SIZE + 1

CcArgs == {[notebook_id |-> n, file_path |-> f] : n \in Notebooks, f \in CcPaths}
NoFrame == [notebook_id |-> "", file_path |-> <<>>, file_size |-> 0,
            source_id |-> "", upload_url |-> ""]

\* the register replies of the service to a call: the call fails, the reply
\* has no id, or it has the id the service registered
CcRegisterOutcomes ==
    {[raise |-> TRUE, id |-> "", reply |-> NoneVal],
     [raise |-> FALSE, id |-> "", reply |-> List(<<>>)]}
    \cup {[raise |-> FALSE, id |-> id, reply |-> List(<<List(<<Str(id)>>)>>)] :
            id \in ServiceIds}

ConcurrentInit ==
    /\ cc_self \in {[auth |-> a] : a \in AuthContexts}
    /\ cc_args \in {a \in [CcCalls -> CcArgs] : a[1] # a[2]}
    /\ cc_pc = [c \in CcCalls |-> "idle"]
    /\ cc_frame = [c \in CcCalls |-> NoFrame]
    /\ cc_wire = <<>>
    /\ cc_got = [c \in CcCalls |-> [source_id |-> "", upload_url |-> ""]]
    /\ cc_result = [c \in CcCalls |-> NoResult]

CcFinish(c, res) ==
    /\ cc_result' = [cc_result EXCEPT ![c] = res]
    /\ cc_pc' = [cc_pc EXCEPT ![c] = "done"]

\* lines 103-110 and 258: the call starts, looks at the file and sends register
CcAddFile(c) ==
    /\ cc_pc[c] = "idle"
    /\ IF ~PathExists(cc_args[c].file_path)
       THEN /\ CcFinish(c, RaiseRec("SourceAddError", "check"))
            /\ cc_frame' = [cc_frame EXCEPT ![Frame(c)] =
                   [NoFrame EXCEPT !.notebook_id = cc_args[c].notebook_id,
                                   !.file_path = cc_args[c].file_path]]
            /\ UNCHANGED cc_wire
       ELSE /\ cc_frame' = [cc_frame EXCEPT ![Frame(c)] =
                   [NoFrame EXCEPT !.notebook_id = cc_args[c].notebook_id,
                                   !.file_path = cc_args[c].file_path,
                                   !.file_size = StatSize(cc_args[c].file_path)]]
            /\ cc_wire' = Append(cc_wire,
                   [by |-> c, req |-> RegisterCall(cc_args[c].notebook_id,
                                                   PathName(cc_args[c].file_path))])
            /\ cc_pc' = [cc_pc EXCEPT ![c] = "await_register"]
            /\ UNCHANGED cc_result
    /\ UNCHANGED <<cc_self, cc_args, cc_got>>

\* lines 258-281, 110-116 and 293-316: register answers; with an id, the
\* session start is sent with what the frame holds
CcRegisterReply(c) ==
    /\ cc_pc[c] = "await_register"
    /\ \E o \in CcRegisterOutcomes :
        IF o.raise
        THEN /\ CcFinish(c, RaiseRec("RPCError", "register"))
             /\ UNCHANGED <<cc_frame, cc_wire, cc_got>>
        ELSE IF RegisterResult(o.reply).t = "raise"
        THEN /\ CcFinish(c, RaiseRec(RegisterResult(o.reply).v, "register"))
             /\ UNCHANGED <<cc_frame, cc_wire, cc_got>>
        ELSE /\ cc_got' = [cc_got EXCEPT ![c].source_id = o.id]
             /\ cc_frame' = [cc_frame EXCEPT ![Frame(c)].source_id = RegisterResult(o.reply).v]
             /\ cc_wire' = Append(cc_wire,
                    [by |-> c, req |-> NegotiateCall(cc_self.auth,
                                           cc_frame'[Frame(c)].notebook_id,
                                           PathName(cc_frame'[Frame(c)].file_path),
                                           cc_frame'[Frame(c)].file_size,
                                           cc_frame'[Frame(c)].source_id)])
             /\ cc_pc' = [cc_pc EXCEPT ![c] = "await_negotiate"]
             /\ UNCHANGED cc_result
    /\ UNCHANGED <<cc_self, cc_args>>

\* lines 316-325, 113-118 and 337-355: the session start answers; with a
\* session URL, the transfer is posted to the URL the frame holds
CcNegotiateReply(c) ==
    /\ cc_pc[c] = "await_negotiate"
    /\ \E o \in NegotiateOutcomes :
        IF o.ok = "transport"
        THEN /\ CcFinish(c, RaiseRec("TransportError", "negotiate"))
             /\ UNCHANGED <<cc_frame, cc_wire, cc_got>>
        ELSE IF o.ok = "status"
        THEN /\ CcFinish(c, RaiseRec("HTTPStatusError", "negotiate"))
             /\ UNCHANGED <<cc_frame, cc_wire, cc_got>>
        ELSE IF o.url = ""
        THEN /\ CcFinish(c, RaiseRec("SourceAddError", "negotiate"))
             /\ UNCHANGED <<cc_frame, cc_wire, cc_got>>
        ELSE /\ cc_got' = [cc_got EXCEPT ![c].upload_url = o.url]
             /\ cc_frame' = [cc_frame EXCEPT ![Frame(c)].upload_url = o.url]
             /\ cc_wire' = Append(cc_wire,
                    [by |-> c, req |-> TransferCall(cc_self.auth,
                                                    cc_frame'[Frame(c)].upload_url)])
             /\ cc_pc' = [cc_pc EXCEPT ![c] = "await_transfer"]
             /\ UNCHANGED cc_result
    /\ UNCHANGED <<cc_self, cc_args>>

\* lines 355-356 and 122: the transfer answers; add returns the source_id of
\* its frame
CcTransferReply(c) ==
    /\ cc_pc[c] = "await_transfer"
    /\ \E o \in TransferOutcomes :
        CcFinish(c, IF o = "transport" THEN RaiseRec("TransportError", "transfer")
                    ELSE IF o = "status" THEN RaiseRec("HTTPStatusError", "transfer")
                    ELSE ReturnRec(cc_frame[Frame(c)].source_id))
    /\ UNCHANGED <<cc_self, cc_args, cc_frame, cc_wire, cc_got>>

-----------------------------------------------------------------------------
(* auth.py: AuthTokens.from_storage, load_auth_from_storage, fetch_tokens *)

\* an exception with the first sentence of its message
RaisedMsg(e, msg) == [t |-> "raise", v |-> e, msg |-> msg]
MSG_MISSING_COOKIES   == "Missing required cookies"
MSG_STORAGE_NOT_FOUND == "Storage file not found"
MSG_AUTH_EXPIRED      == "Authentication expired or invalid."
MSG_CSRF_NOT_FOUND    == "CSRF token not found in HTML."
MSG_SESSION_NOT_FOUND == "Session ID not found in HTML."

NOTEBOOKLM_URL      == <<"h", "t", "t", "p", "s", ":", "/", "/", "n", "o", "t", "e", "b", "o", "o", "k", "l", "m", ".", "g", "o", "o", "g", "l", "e", ".", "c", "o", "m", "/">>
ACCOUNTS_GOOGLE_COM == <<"a", "c", "c", "o", "u", "n", "t", "s", ".", "g", "o", "o", "g", "l", "e", ".", "c", "o", "m">>
QUOTE      == "\""
SNLM0E_KEY == <<"\"", "S", "N", "l", "M", "0", "e", "\"">>
FDRFJE_KEY == <<"\"", "F", "d", "r", "F", "J", "e", "\"">>

\* sub occurs in s at index i; `sub in s`
StartsAt(s, sub, i) ==
    i + Len(sub) - 1 <= Len(s) /\ SubSeq(s, i, i + Len(sub) - 1) = sub
Contains(s, sub) == \E i \in 1..Len(s) : StartsAt(s, sub, i)

\* \s of a regular expression
ReSpace == {" ", "\t", "\n", "\r", "\f"}
\* \s* from index i: the first index not holding white space
RECURSIVE SkipSpace(_, _)
SkipSpace(s, i) == IF i <= Len(s) /\ s[i] \in ReSpace THEN SkipSpace(s, i + 1) ELSE i

\* the index i if it holds character c, else 0
CharAt(s, i, c) == IF i >= 1 /\ i <= Len(s) /\ s[i] = c THEN i ELSE 0
\* \s*:\s*" from index a: the index of the opening quote, 0 when it fails
ColonFrom(s, a) == CharAt(s, SkipSpace(s, a), ":")
QuoteAfter(s, b) == IF b = 0 THEN 0 ELSE CharAt(s, SkipSpace(s, b + 1), QUOTE)
\* ([^"]+)" from the opening quote at c, the closing one found at d
GroupBetween(s, c, d) == IF d > c + 1 THEN Str(SubSeq(s, c + 1, d - 1)) ELSE NoneVal
GroupAfter(s, c) == IF c = 0 THEN NoneVal ELSE GroupBetween(s, c, FindAny(s, {QUOTE}, c + 1))
\* the pattern "KEY"\s*:\s*"([^"]+)" tried at index i: group 1, or None
MatchAt(html, key, i) ==
    IF StartsAt(html, key, i)
    THEN GroupAfter(html, QuoteAfter(html, ColonFrom(html, i + Len(key))))
    ELSE NoneVal

\* re.search: the match at the leftmost index where the pattern matches
MatchIndices(html, key) == {i \in 1..Len(html) : MatchAt(html, key, i).t = "str"}
Leftmost(indices) == CHOOSE i \in indices : \A j \in indices : i <= j
MatchAtLeftmost(html, key, indices) ==
    IF indices = {} THEN NoneVal ELSE MatchAt(html, key, Leftmost(indices))
re_search(html, key) == MatchAtLeftmost(html, key, MatchIndices(html, key))

\* lines 158-170 and 191-202: the group, or the ValueError of the two messages
GroupOrError(match, html, final_url, not_found) ==
    IF match.t = "str" THEN match
    ELSE IF Contains(final_url, ACCOUNTS_GOOGLE_COM) \/ Contains(html, ACCOUNTS_GOOGLE_COM)
    THEN RaisedMsg("ValueError", MSG_AUTH_EXPIRED)
    ELSE RaisedMsg("ValueError", not_found)

extract_csrf_from_html(html, final_url) ==
    GroupOrError(re_search(html, SNLM0E_KEY), html, final_url, MSG_CSRF_NOT_FOUND)

extract_session_id_from_html(html, final_url) ==
    GroupOrError(re_search(html, FDRFJE_KEY), html, final_url, MSG_SESSION_NOT_FOUND)

\* lines 354-357: csrf first, then session_id, then the pair
TokenPair(csrf, session_id) ==
    IF csrf.t = "raise" THEN csrf
    ELSE IF session_id.t = "raise" THEN session_id
    ELSE [t |-> "tuple", v |-> <<csrf.v, session_id.v>>, msg |-> ""]

\* fetch_tokens from the answer of the GET on (lines 340-357)
fetch_tokens(response) ==
    IF response.ok = "transport" THEN RaisedMsg("TransportError", "")
    ELSE IF response.ok = "status" THEN RaisedMsg("HTTPStatusError", "")
    ELSE IF Contains(response.final_url, ACCOUNTS_GOOGLE_COM)
    THEN RaisedMsg("ValueError", MSG_AUTH_EXPIRED)
    ELSE TokenPair(extract_csrf_from_html(response.html, response.final_url),
                   extract_session_id_from_html(response.html, response.final_url))

\* the cookies handed on without a look at the file or at SID
load_auth_from_storage_Unchecked(storage) ==
    [t |-> "dict", v |-> RpcCookieLoop(storage.cookies, <<>>)]

\* load_auth_from_storage (lines 221-230)
load_auth_from_storage(storage) ==
    IF storage.kind = "absent" THEN RaisedMsg("FileNotFoundError", MSG_STORAGE_NOT_FOUND)
    ELSE IF storage.kind = "malformed" THEN RaisedMsg("JSONDecodeError", "")
    ELSE IF extract_cookies_from_storage(storage.cookies).t = "raise"
    THEN RaisedMsg("ValueError", MSG_MISSING_COOKIES)
    ELSE extract_cookies_from_storage(storage.cookies)

\* cls(cookies=cookies, csrf_token=csrf_token, session_id=session_id)
AuthTokens(cookies, csrf_token, session_id) ==
    [t |-> "AuthTokens",
     v |-> [cookies |-> cookies, csrf_token |-> csrf_token, session_id |-> session_id],
     msg |-> ""]

\* ---- the storage files and the pages from_storage is run on

XYZ    == <<"x", "y", "z">>
TOKEN1 == <<"T", "O", "K", "E", "N", "1">>
TOKEN2 == <<"T", "O", "K", "E", "N", "2">>
AcquireCookies ==
    {[domain |-> DOT_GOOGLE_COM, name |-> "SID", value |-> XYZ],
     [domain |-> EVIL_GOOGLE_COM, name |-> "SID", value |-> XYZ],
     [domain |-> LH3_GOOGLE_COM, name |-> "SID", value |-> XYZ],
     [domain |-> NOTEBOOKLM_GOOGLE_COM, name |-> "HSID", value |-> <<"h">>]}
Storages ==
    {[kind |-> "absent", cookies |-> <<>>], [kind |-> "malformed", cookies |-> <<>>]}
    \cup {[kind |-> "ok", cookies |-> l] : l \in SeqsUpTo(AcquireCookies, MaxCookies)}

\* "KEY"<sep>"<value>"
Pair(key, sep, value) == key \o sep \o <<QUOTE>> \o value \o <<QUOTE>>
\* how a page may carry one of the two values: not at all, as a pair, as a pair
\* with white space around the colon, with an empty value, with an empty value
\* first and a full pair after it; `value` is what the page carries, <<>> for
\* nothing
Carried(key, token) ==
    {[text |-> <<>>, value |-> <<>>],
     [text |-> Pair(key, <<":">>, token), value |-> token],
     [text |-> Pair(key, <<" ", ":", "\n", " ">>, token), value |-> token],
     [text |-> Pair(key, <<":">>, <<>>), value |-> <<>>],
     [text |-> Pair(key, <<":">>, <<>>) \o <<",">> \o Pair(key, <<":">>, token),
      value |-> token]}
LOGIN_LINK == <<"<", "a", " ", "h", "r", "e", "f", "=", "\"", "h", "t", "t", "p", "s", ":", "/", "/", "a", "c", "c", "o", "u", "n", "t", "s", ".", "g", "o", "o", "g", "l", "e", ".", "c", "o", "m", "/", "\"", ">">>
FinalUrls ==
    {NOTEBOOKLM_URL,
     <<"h", "t", "t", "p", "s", ":", "/", "/", "a", "c", "c", "o", "u", "n", "t", "s", ".", "g", "o", "o", "g", "l", "e", ".", "c", "o", "m", "/", "s", "i", "g", "n", "i", "n">>,
     <<"h", "t", "t", "p", "s", ":", "/", "/", "n", "o", "t", "e", "b", "o", "o", "k", "l", "m", ".", "g", "o", "o", "g", "l", "e", ".", "c", "o", "m", "/", "?", "h", "l", "=", "a", "c", "c", "o", "u", "n", "t", "s", ".", "g", "o", "o", "g", "l", "e", ".", "c", "o", "m">>}
\* the landing pages: the script blob with the two values in either order, with
\* or without a link to the sign-in host
Pages ==
    {[csrf |-> c.value, session |-> f.value, link |-> l # <<>>,
      html |-> <<"{">> \o c.text \o <<",">> \o f.text \o <<"}">> \o l] :
        c \in Carried(SNLM0E_KEY, TOKEN1), f \in Carried(FDRFJE_KEY, TOKEN2),
        l \in {<<>>, LOGIN_LINK}}
    \cup
    {[csrf |-> c.value, session |-> f.value, link |-> l # <<>>,
      html |-> l \o <<"{">> \o f.text \o <<",">> \o c.text \o <<"}">>] :
        c \in Carried(SNLM0E_KEY, TOKEN1), f \in Carried(FDRFJE_KEY, TOKEN2),
        l \in {<<>>, LOGIN_LINK}}
NoPage == [csrf |-> <<>>, session |-> <<>>, link |-> FALSE, html |-> <<>>]
\* what the GET may answer: no answer, an error status, a page at a final URL
Responses ==
    {[ok |-> "transport", final_url |-> <<>>, page |-> NoPage, html |-> <<>>]}
    \cup {[ok |-> "status", final_url |-> u, page |-> NoPage, html |-> <<>>] : u \in FinalUrls}
    \cup {[ok |-> "ok", final_url |-> u, page |-> pg, html |-> pg.html] :
            u \in FinalUrls, pg \in Pages}

NoResponse == [ok |-> "none", final_url |-> <<>>, page |-> NoPage, html |-> <<>>]
Pending    == [t |-> "pending", v |-> <<>>, msg |-> ""]

AcquireInit ==
    /\ aq_pc = "start"
    /\ aq_storage \in Storages
    /\ aq_cookies = <<>>
    /\ aq_fetches = <<>>
    /\ aq_page = NoResponse
    /\ aq_result = Pending

\* from_storage to its first await: load_auth_from_storage (line 100), then
\* fetch_tokens up to client.get (lines 333-340)
FromStorage ==
    /\ aq_pc = "start"
    /\ \E r \in {load_auth_from_storage(aq_storage)} :
        IF r.t = "raise"
        THEN /\ aq_result' = r
             /\ aq_pc' = "done"
             /\ UNCHANGED <<aq_cookies, aq_fetches>>
        ELSE /\ aq_cookies' = r.v
             /\ aq_fetches' = Append(aq_fetches,
                    [url |-> NOTEBOOKLM_URL,
                     Cookie |-> cookie_header(r.v),
                     follow_redirects |-> TRUE])
             /\ aq_pc' = "fetching"
             /\ UNCHANGED aq_result
    /\ UNCHANGED <<aq_storage, aq_page>>

\* the GET answers: the rest of fetch_tokens (lines 340-357), then line 102
FetchReply ==
    /\ aq_pc = "fetching"
    /\ \E response \in Responses :
        /\ aq_page' = response
        /\ \E r \in {fetch_tokens(response)} :
              aq_result' = IF r.t = "raise" THEN r
                           ELSE AuthTokens(aq_cookies, r.v[1], r.v[2])
    /\ aq_pc' = "done"
    /\ UNCHANGED <<aq_storage, aq_cookies, aq_fetches>>

\* the other specifications' variables while this one runs
AddIdle ==
    /\ op = NoOp
    /\ pc = "off" /\ nb = "" /\ raw = <<>> /\ fs = "absent" /\ fsAtAdd = "unknown"
    /\ branch = "none" /\ diskSize = 0 /\ file_size = 0 /\ source_id = ""
    /\ upload_url = "" /\ sent = <<>> /\ calls = <<>> /\ replies = <<>>
    /\ registered = {} /\ result = NoResult /\ auth = <<>>
ClassifyIdle ==
    /\ cl_x = <<>> /\ cl_raw = <<>> /\ cl_fs = "absent" /\ cl_parse = NoneVal
    /\ cl_out = [kind |-> "pending", id |-> NoneVal] /\ cl_done = FALSE
UnwrapIdle  == uw_in = NoneVal /\ uw_out = NoneVal /\ uw_done = FALSE
CookiesIdle == ck_list = <<>> /\ ck_rpc = NoneVal /\ ck_dl = NoneVal /\ ck_done = FALSE
ConcurrentIdle ==
    /\ cc_self = [auth |-> <<>>] /\ cc_args = <<>> /\ cc_pc = <<>> /\ cc_frame = <<>>
    /\ cc_wire = <<>> /\ cc_got = <<>> /\ cc_result = <<>>
AcquireIdle ==
    /\ aq_pc = "off" /\ aq_storage = [kind |-> "absent", cookies |-> <<>>]
    /\ aq_cookies = <<>> /\ aq_fetches = <<>> /\ aq_page = NoResponse
    /\ aq_result = Pending

Init ==
    /\ AddInit /\ op = NoOp
    /\ ClassifyIdle /\ UnwrapIdle /\ CookiesIdle /\ AcquireIdle /\ ConcurrentIdle
\* the variables of the other specifications stay as they are
AddFrame == UNCHANGED <<clVars, uwVars, ckVars, aqVars, op, ccVars>>
Next ==
    \/ Add /\ AddFrame
    \/ FileCheck /\ AddFrame
    \/ FileStat /\ AddFrame
    \/ RegisterReply /\ AddFrame
    \/ NegotiateReply /\ AddFrame
    \/ StreamOpen /\ AddFrame
    \/ ReadChunk /\ AddFrame
    \/ TransferReply /\ AddFrame
    \/ YoutubeReply /\ AddFrame
    \/ UrlReply /\ AddFrame
    \/ EnvUnlink /\ AddFrame
Spec == Init /\ [][Next]_vars

InitClassify ==
    ClassifyInit /\ AddIdle /\ UnwrapIdle /\ CookiesIdle /\ AcquireIdle /\ ConcurrentIdle
NextClassify == Classify /\ UNCHANGED <<addVars, uwVars, ckVars, aqVars, op, ccVars>>
SpecClassify == InitClassify /\ [][NextClassify]_vars

InitUnwrap ==
    UnwrapInit /\ AddIdle /\ ClassifyIdle /\ CookiesIdle /\ AcquireIdle /\ ConcurrentIdle
NextUnwrap == Extract /\ UNCHANGED <<addVars, clVars, ckVars, aqVars, op, ccVars>>
SpecUnwrap == InitUnwrap /\ [][NextUnwrap]_vars

InitCookies ==
    CookiesInit /\ AddIdle /\ ClassifyIdle /\ UnwrapIdle /\ AcquireIdle /\ ConcurrentIdle
NextCookies == FilterCookies /\ UNCHANGED <<addVars, clVars, uwVars, aqVars, op, ccVars>>
SpecCookies == InitCookies /\ [][NextCookies]_vars

InitAcquire ==
    AcquireInit /\ AddIdle /\ ClassifyIdle /\ UnwrapIdle /\ CookiesIdle /\ ConcurrentIdle
NextAcquire ==
    \/ FromStorage /\ UNCHANGED <<addVars, clVars, uwVars, ckVars, op, ccVars>>
    \/ FetchReply /\ UNCHANGED <<addVars, clVars, uwVars, ckVars, op, ccVars>>
SpecAcquire == InitAcquire /\ [][NextAcquire]_vars

InitConcurrent ==
    ConcurrentInit /\ AddIdle /\ ClassifyIdle /\ UnwrapIdle /\ CookiesIdle /\ AcquireIdle
ConcurrentFrame == UNCHANGED <<addVars, clVars, uwVars, ckVars, aqVars, op>>
NextConcurrent ==
    \/ \E c \in CcCalls : CcAddFile(c) /\ ConcurrentFrame
    \/ \E c \in CcCalls : CcRegisterReply(c) /\ ConcurrentFrame
    \/ \E c \in CcCalls : CcNegotiateReply(c) /\ ConcurrentFrame
    \/ \E c \in CcCalls : CcTransferReply(c) /\ ConcurrentFrame
SpecConcurrent == InitConcurrent /\ [][NextConcurrent]_vars

\* one call of add, list or delete on a client
ClientFrame == UNCHANGED <<clVars, uwVars, ckVars, aqVars, ccVars>>
NextClient ==
    \/ Next
    \/ ListSources /\ ClientFrame
    \/ ListReply /\ ClientFrame
    \/ Delete /\ ClientFrame
    \/ DeleteReply /\ ClientFrame
SpecClient == Init /\ [][NextClient]_vars

-----------------------------------------------------------------------------
(* What the specification says, in its own terms *)

UploadPhases == <<"register", "negotiate", "transfer">>
IsPrefix(s, t) == Len(s) <= Len(t) /\ SubSeq(t, 1, Len(s)) = s

\* the value at the end of the first-element chain of a reply
RECURSIVE FirstChainEnd(_)
FirstChainEnd(value) ==
    IF value.t = "list" /\ Len(value.v) > 0 THEN FirstChainEnd(value.v[1]) ELSE value

NonEmptySequence(reply) == reply.t = "list" /\ Len(reply.v) > 0

\* a well-formed video identifier: letters, digits, "-" and "_", at least one
WellFormedId(id) ==
    Len(id) > 0 /\ \A i \in 1..Len(id) : id[i] \in Letters \cup Digits \cup {"-", "_"}

\* d itself, or a name that ends in "." followed by d
DotQualified(d) == IF d[1] = "." THEN d ELSE <<".">> \o d
SubdomainAllowed(domain) ==
    \E d \in ALLOWED_COOKIE_DOMAINS : domain = d \/ EndsWith(domain, DotQualified(d))

-----------------------------------------------------------------------------
(* The upload of a local file: C1 to C4 *)

\* C1: when add is called on an existing regular file and all three phases
\* succeed, the requests made are exactly one register, one negotiate and one
\* transfer, in that order and no other, and add returns the source id found in
\* the register reply.
C1_RegisterNegotiateTransferOnce ==
    (/\ pc = "done"
     /\ fsAtAdd = "file"
     /\ \/ result.kind = "return"
        \/ Len(replies) = 3 /\ \A i \in 1..3 : ~replies[i].raise)
    => /\ CallKinds(calls) = UploadPhases
       /\ [i \in 1..Len(replies) |-> replies[i].to] = UploadPhases
       /\ \A i \in 1..3 : ~replies[i].raise
       /\ result = ReturnRec(FirstChainEnd(replies[1].reply).v)
       /\ result.v \in registered

C1_Witness ==
    /\ pc = "done"
    /\ fsAtAdd = "file"
    /\ result = ReturnRec("id-7")
    /\ replies[1].reply = List(<<List(<<Str("id-7"), NoneVal>>), Str("title")>>)
    /\ CallKinds(calls) = UploadPhases

\* C2: the transfer reads the file once, as non-empty chunks none larger than
\* the chunk size; when the body is complete the chunks add up to the file's
\* size N, also for N = 0 (no chunk at all) and for N a multiple of the chunk
\* size (no empty chunk at the end).
C2_ChunksAddUpToFileSize ==
    /\ \A i \in 1..Len(sent) : sent[i] > 0 /\ sent[i] <= READ_SIZE
    /\ Sum(sent) <= diskSize
    /\ (pc = "await_transfer" \/ (pc = "done" /\ result.kind = "return" /\ branch = "file"))
       => /\ Sum(sent) = diskSize
          /\ (Len(sent) - 1) * READ_SIZE < diskSize
          /\ diskSize <= Len(sent) * READ_SIZE

C2_Witness ==
    /\ pc = "await_transfer"
    /\ diskSize = 2 * READ_SIZE
    /\ sent = <<READ_SIZE, READ_SIZE>>

\* C3: no phase of the upload is retried and a failure in any phase ends add:
\* the requests made are always a prefix of register, negotiate, transfer; a
\* request that fails is the last one made; after a failure add has raised, and
\* it has made no request of a later phase.
C3_NoRetryFailureAborts ==
    branch = "file" =>
        /\ IsPrefix(CallKinds(calls), UploadPhases)
        /\ \A i \in 1..Len(replies) :
              replies[i].raise =>
                  /\ i = Len(replies)
                  /\ Len(calls) = i
                  /\ pc = "done"
                  /\ result.kind = "raise"
        /\ (Len(replies) >= 1 /\ ~Truthy(FirstChainEnd(replies[1].reply)))
              => Len(calls) = 1 /\ pc = "done" /\ result.kind = "raise"
        /\ (pc = "done" /\ result.kind = "raise") =>
              CallKinds(calls) =
                  CASE result.at = "precheck" -> <<>>
                    [] result.at = "register" -> <<"register">>
                    [] result.at = "negotiate" -> <<"register", "negotiate">>
                    [] result.at = "transfer" -> UploadPhases

C3_Witness ==
    /\ pc = "done"
    /\ branch = "file"
    /\ replies # <<>>
    /\ replies[1].raise
    /\ result.kind = "raise"
    /\ CallKinds(calls) = <<"register">>

\* C4: when negotiate or the transfer fails after register succeeded, add makes
\* no compensating delete and no other further request, the source id of the
\* first phase stays registered at the service, and the caller gets an error,
\* not a successful return.
C4_NoCompensatingDelete ==
    (pc = "done" /\ branch = "file" /\ result.at \in {"negotiate", "transfer"})
    => /\ result.kind = "raise"
       /\ CallKinds(calls) \in {<<"register", "negotiate">>, UploadPhases}
       /\ CallKind(calls[Len(calls)]) = result.at
       /\ source_id # ""
       /\ source_id \in registered
       /\ source_id = FirstChainEnd(replies[1].reply).v

C4_Witness ==
    /\ pc = "done"
    /\ branch = "file"
    /\ result = RaiseRec("HTTPStatusError", "transfer")
    /\ source_id \in registered
    /\ Len(calls) = 3

-----------------------------------------------------------------------------
(* The video and the URL branch: C5 and C6 *)

\* C5: for a video reference and for a generic URL alike, add fails when the one
\* add-source call raises or returns an empty reply or a reply that is no
\* sequence, and returns successfully only on a non-empty sequence. (Read in the
\* claim's favour: any exception counts as the failure.)
C5_AddSourceFailsUnlessNonEmptySequence ==
    (pc = "done" /\ branch \in {"video", "url"})
    => IF ~replies[1].raise /\ NonEmptySequence(replies[1].reply)
       THEN result.kind = "return"
       ELSE result.kind = "raise"

\* the inputs of add that are video references
C6_VideoInputs ==
    {Https(YOUTU_BE) \o SL \o ABC123,
     Https(M_YOUTUBE_COM) \o SL \o WATCH_ \o QV \o ABC123}

\* C6: add takes exactly one branch for every string: the file branch when the
\* string names an existing regular file, even if it is a video URL as well;
\* else the video branch when it is a video reference; else the URL branch. The
\* video and the URL branch make exactly one add-source call and never a
\* register, negotiate or transfer request.
C6_ClassificationTotalOrdered ==
    pc # "idle" =>
        /\ branch = (IF fsAtAdd = "file" THEN "file"
                     ELSE IF raw \in C6_VideoInputs THEN "video"
                     ELSE "url")
        /\ branch \in {"video", "url"} => CallKinds(calls) = <<"add_source">>
        /\ branch = "file" => \A i \in 1..Len(calls) : CallKind(calls[i]) # "add_source"

C6_Witness ==
    /\ pc = "done"
    /\ fsAtAdd = "file"
    /\ raw = Https(YOUTU_BE) \o SL \o ABC123
    /\ branch = "file"
    /\ result.kind = "return"

-----------------------------------------------------------------------------
(* The classifier alone: C7 and C8 *)

\* the four URL forms of the claim and the canonical one, around identifier id
C7_Forms(id) ==
    {Https(M_YOUTUBE_COM) \o SL \o WATCH_ \o QV \o id,
     Https(YOUTU_BE) \o SL \o id,
     Https(WWW_YOUTUBE_COM) \o SL \o SHORTS_ \o SL \o id,
     Https(MUSIC_YOUTUBE_COM) \o SL \o WATCH_ \o QV \o id,
     Https(YOUTUBE_COM) \o SL \o WATCH_ \o QV \o id}

\* C7: for every well-formed identifier ID, the watch URL on the mobile host, the
\* short link, the shorts path and the watch URL on the music host classify like
\* the watch URL on the canonical host: as a video reference with identifier ID.
C7_VariantHostsLikeCanonical ==
    (cl_done /\ cl_fs # "file" /\ WellFormedId(cl_x) /\ cl_raw \in C7_Forms(cl_x))
    => /\ cl_out = [kind |-> "VideoReference", id |-> Str(cl_x)]
       /\ cl_parse = Str(cl_x)

C7_Witness ==
    /\ cl_done
    /\ cl_fs = "absent"
    /\ cl_x = ABC123
    /\ cl_raw = Https(MUSIC_YOUTUBE_COM) \o SL \o WATCH_ \o QV \o ABC123
    /\ cl_out = [kind |-> "VideoReference", id |-> Str(ABC123)]

\* C8: the parser never raises past the classifier: on every string it returns a
\* valid identifier or nothing, and on nothing the classification is GenericUrl;
\* so for a video-host URL with an empty identifier and for a string that is no
\* URL.
C8_ParserNeverRaises ==
    cl_done =>
        /\ cl_out.kind \in {"LocalFile", "VideoReference", "GenericUrl"}
        /\ cl_fs # "file" =>
              /\ cl_parse.t \in {"str", "none"}
              /\ cl_parse.t = "str" =>
                    /\ WellFormedId(Strip(cl_parse.v))
                    /\ cl_out = [kind |-> "VideoReference", id |-> cl_parse]
              /\ cl_parse.t = "none" => cl_out = [kind |-> "GenericUrl", id |-> NoneVal]
              /\ cl_raw \in {Https(YOUTUBE_COM) \o SL \o WATCH_ \o QV, NOT_A_URL}
                    => cl_out.kind = "GenericUrl"

C8_Witness ==
    /\ cl_done
    /\ cl_fs = "dir"
    /\ cl_raw = Https(<<"[">> \o YOUTUBE_COM) \o SL \o WATCH_ \o QV \o ABC123
    /\ cl_parse = NoneVal
    /\ cl_out.kind = "GenericUrl"

-----------------------------------------------------------------------------
(* extract_id alone: C9 *)

\* C9 as the specification words it: the value at the end of the first-element
\* chain is returned when it is a scalar, a number as much as a string; an empty
\* sequence and null give none.
C9_ScalarAtChainEndReturned ==
    uw_done =>
        uw_out = (IF FirstChainEnd(uw_in).t \in {"str", "int"}
                  THEN FirstChainEnd(uw_in)
                  ELSE NoneVal)

\* "id-7" under n levels of nesting
RECURSIVE Wrapped(_)
Wrapped(n) == IF n = 0 THEN Str("id-7") ELSE List(<<Wrapped(n - 1)>>)

\* C9: extract_id follows the first-element chain only and returns the value at
\* its end when that is a string; an empty sequence, null and a scalar that is
\* no string give none. A string under one to four levels of nesting is returned
\* unchanged.
C9_StringAtChainEndReturned ==
    uw_done =>
        /\ uw_out = (IF FirstChainEnd(uw_in).t = "str" THEN FirstChainEnd(uw_in) ELSE NoneVal)
        /\ uw_in \in {Wrapped(n) : n \in 1..4} => uw_out = Str("id-7")
        /\ uw_in \in {List(<<>>), NoneVal} => uw_out = NoneVal

C9_Witness ==
    /\ uw_done
    /\ uw_in = List(<<List(<<IntVal(7)>>)>>)
    /\ uw_out = NoneVal

-----------------------------------------------------------------------------
(* The cookie filters: C10 *)

\* the names of the entries of list that satisfy Keep
NamesKept(list, Keep(_)) ==
    {list[i].name : i \in {j \in 1..Len(list) : Keep(list[j])}}
\* the last entry of list with this name that satisfies Keep
LastKept(list, Keep(_), name) ==
    list[CHOOSE i \in 1..Len(list) :
            /\ list[i].name = name /\ Keep(list[i])
            /\ \A j \in (i + 1)..Len(list) : ~(list[j].name = name /\ Keep(list[j]))]

OnSubdomainAllowed(cookie) == SubdomainAllowed(cookie.domain) /\ cookie.name # ""
OnListedDomain(cookie) == cookie.domain \in ALLOWED_COOKIE_DOMAINS /\ cookie.name # ""
ForDownload(cookie) ==
    SubdomainAllowed(cookie.domain) /\ cookie.name # "" /\ cookie.value # ""

SidListed(cookie) == cookie.name = "SID" /\ cookie.domain \in ALLOWED_COOKIE_DOMAINS
SidForDownload(cookie) == cookie.name = "SID" /\ SubdomainAllowed(cookie.domain)
SidWithValue(cookie) == SidForDownload(cookie) /\ cookie.value # ""
Some(list, P(_)) == \E i \in 1..Len(list) : P(list[i])

\* C11 as the specification words it: each of the two entry points fails exactly
\* when no cookie named SID passes its domain filter, and succeeds when one
\* does, whatever its value, the empty one included.
C11_BothFiltersAcceptAnySidValue ==
    ck_done =>
        /\ ck_rpc.t = "raise" <=> ~Some(ck_list, SidListed)
        /\ ck_dl.t = "raise" <=> ~Some(ck_list, SidForDownload)

\* C11: the AuthContext filter fails with the missing-cookie error (ValueError)
\* exactly when no cookie named SID passes its domain filter, whatever the
\* cookie's value; the download filter fails with it exactly when no cookie
\* named SID with a non-empty value passes its domain filter: an SID cookie
\* whose value is empty does not count there.
C11_SidRequired ==
    ck_done =>
        /\ ck_rpc = Raised("ValueError") <=> ~Some(ck_list, SidListed)
        /\ ck_rpc.t = "dict" <=> Some(ck_list, SidListed)
        /\ ck_dl = Raised("ValueError") <=> ~Some(ck_list, SidWithValue)
        /\ ck_dl.t = "jar" <=> Some(ck_list, SidWithValue)

C11_Witness ==
    /\ ck_done
    /\ ck_list = <<[domain |-> DOT_GOOGLE_COM, name |-> "SID", value |-> ""]>>
    /\ ck_rpc = [t |-> "dict", v |-> <<<<"SID", "">>>>]
    /\ ck_dl = Raised("ValueError")

-----------------------------------------------------------------------------
(* Acquiring the AuthContext: C12 to C14 *)

\* the error kinds of the specification, as the exceptions the caller sees
IsStorageNotFoundError(r) == r.t = "raise" /\ r.v = "FileNotFoundError"
IsMissingCookieError(r) ==
    r.t = "raise" /\ r.v = "ValueError" /\ r.msg = MSG_MISSING_COOKIES
IsAuthExpiredError(r) ==
    r.t = "raise" /\ r.v = "ValueError" /\ r.msg = MSG_AUTH_EXPIRED
IsTokenExtractionError(r) ==
    r.t = "raise" /\ r.v = "ValueError"
        /\ r.msg \in {MSG_CSRF_NOT_FOUND, MSG_SESSION_NOT_FOUND}

\* the host of a URL
HostOf(url) == hostname_of(urlparse(url))
\* the landing page was fetched and it came from the identity provider
AtIdentityProvider == HostOf(aq_page.final_url) = ACCOUNTS_GOOGLE_COM

\* C12: once the landing page is fetched, acquire fails with AuthExpiredError
\* exactly when the final URL has the identity provider's host; a page from any
\* other host that lacks a token is never reported as AuthExpiredError.
C12_ExpiredExactlyAtIdentityProvider ==
    (aq_pc = "done" /\ aq_page.ok = "ok")
    => (IsAuthExpiredError(aq_result) <=> AtIdentityProvider)

\* C13: with an allowed SID cookie in the storage file and a landing page that
\* does not come from the identity provider, acquire returns an AuthContext with
\* the value of the "SNlM0e" pair as csrfToken and the value of the "FdrFJe"
\* pair as sessionId, both non-empty; when either pair is absent it fails with
\* TokenExtractionError.
C13_TokensAreThePairValues ==
    (/\ aq_pc = "done"
     /\ aq_storage.kind = "ok"
     /\ Some(aq_storage.cookies, SidListed)
     /\ aq_page.ok = "ok"
     /\ ~AtIdentityProvider)
    => IF aq_page.page.csrf # <<>> /\ aq_page.page.session # <<>>
       THEN /\ aq_result.t = "AuthTokens"
            /\ aq_result.v.csrf_token = aq_page.page.csrf
            /\ aq_result.v.session_id = aq_page.page.session
       ELSE IsTokenExtractionError(aq_result)

-----------------------------------------------------------------------------
(* The two cookie filters compared: C15 *)

\* the jar holds a cookie of this name and value
InJar(jar, name, value) ==
    \E i \in 1..Len(jar) : jar[i].name = name /\ jar[i].value = value

\* C15 as the specification words it: every cookie, name and value, that the
\* RPC filter retains is retained by the download filter too, so the download
\* filter succeeds whenever the RPC filter does.
C15_DownloadKeepsAllRpcCookies ==
    (ck_done /\ ck_rpc.t = "dict")
    => /\ ck_dl.t = "jar"
       /\ \A k \in Keys(ck_rpc.v) : InJar(ck_dl.v, k, DictGet(ck_rpc.v, k))

\* C15: every cookie with a non-empty value that the RPC filter retains is
\* retained by the download filter too, and the download filter succeeds
\* whenever the RPC filter succeeds with a non-empty SID value; a cookie with an
\* empty value is retained by the RPC filter only.
C15_DownloadKeepsRpcCookiesWithValue ==
    (ck_done /\ ck_rpc.t = "dict")
    => /\ DictGet(ck_rpc.v, "SID") # "" => ck_dl.t = "jar"
       /\ ck_dl.t = "jar" =>
             /\ \A k \in Keys(ck_rpc.v) :
                   DictGet(ck_rpc.v, k) # "" => InJar(ck_dl.v, k, DictGet(ck_rpc.v, k))
             /\ \A i \in 1..Len(ck_dl.v) : ck_dl.v[i].value # ""

C15_Witness ==
    /\ ck_done
    /\ ck_list = <<[domain |-> DOT_GOOGLE_COM, name |-> "SID", value |-> "x"],
                   [domain |-> NOTEBOOKLM_GOOGLE_COM, name |-> "HSID", value |-> ""]>>
    /\ ck_rpc = [t |-> "dict", v |-> <<<<"SID", "x">>, <<"HSID", "">>>>]
    /\ ck_dl.t = "jar"
    /\ Len(ck_dl.v) = 1

-----------------------------------------------------------------------------
(* delete, and the AuthContext under every operation: C16 and C18 *)

\* C16: delete(notebookId, sourceId) makes exactly one remote call, which
\* carries that notebookId and that sourceId, never repeats it, and on a
\* failure of the call fails with SourceDeleteError.
C16_DeleteOnceOrSourceDeleteError ==
    op.name = "delete" =>
        /\ calls = <<DeleteCall(op.notebook_id, op.source_id)>>
        /\ calls[1].params.v = <<Str(op.notebook_id), Str(op.source_id)>>
        /\ pc = "done" =>
              IF replies[1].raise
              THEN result.kind = "raise" /\ result.v = "SourceDeleteError"
              ELSE result.kind = "return"

\* C18: no step of add, list or delete, successful or failing, changes the
\* AuthContext: its cookies, csrfToken and sessionId stay as constructed.
C18_AuthContextNeverModified == [][auth' = auth]_vars

C18_Witness ==
    /\ pc = "done"
    /\ op.name = "delete"
    /\ result.kind = "raise"
    /\ auth \in AuthContexts

-----------------------------------------------------------------------------
(* The register phase and its reply: C19 *)

\* C19 as the specification words it: register fails with its registration
\* error exactly when extract_id finds nothing in the reply; whenever extract_id
\* finds an identifier, a bare scalar reply included, register succeeds and the
\* sourceId is that identifier. (SourceAddError is taken for the registration
\* error.)
C19_RegisterFailsExactlyWhenNothingFound ==
    (Len(replies) >= 1 /\ replies[1].to = "register" /\ ~replies[1].raise)
    => IF extract_id(replies[1].reply) = NoneVal
       THEN result = RaiseRec("SourceAddError", "register")
       ELSE /\ source_id = extract_id(replies[1].reply).v
            /\ ~(result.kind = "raise" /\ result.at = "register")

\* C19: register succeeds exactly when the reply is a non-empty list whose
\* first-element chain ends in a non-empty string, and then the sourceId is
\* that string and the negotiate request carries it; on every other reply (a
\* bare string, an empty string on the chain, a number, null, an empty list)
\* it fails with SourceAddError and makes no further request.
C19_RegisterSucceedsOnListWithString ==
    (Len(replies) >= 1 /\ replies[1].to = "register" /\ ~replies[1].raise)
    => IF /\ NonEmptySequence(replies[1].reply)
          /\ FirstChainEnd(replies[1].reply).t = "str"
          /\ FirstChainEnd(replies[1].reply).v # ""
       THEN /\ source_id = FirstChainEnd(replies[1].reply).v
            /\ ~(result.kind = "raise" /\ result.at = "register")
            /\ CallKinds(calls)[2] = "negotiate"
            /\ calls[2] = NegotiateCall(auth, nb, PathName(raw), file_size, source_id)
       ELSE /\ result = RaiseRec("SourceAddError", "register")
            /\ pc = "done"
            /\ CallKinds(calls) = <<"register">>

C19_Witness ==
    /\ Len(replies) = 1
    /\ replies[1].to = "register"
    /\ replies[1].reply = Str("id-7")
    /\ result = RaiseRec("SourceAddError", "register")

-----------------------------------------------------------------------------
(* The error kinds of the three upload phases: C20 *)

\* the phase an error kind would name if each phase had a kind of its own:
\* SourceAddError is what register raises on a reply without id, and the
\* rejection of a request is given to negotiate. (Giving either kind to another
\* phase leaves the same two kinds raised in two phases each.)
PhaseToldBy(kind) ==
    CASE kind = "SourceAddError"  -> "register"
      [] kind = "HTTPStatusError" -> "negotiate"
      [] OTHER                    -> "none"

\* the upload failed on an answer of the service: a reply without id, a
\* rejected request, a missing session URL (not a transport failure)
FailedOnAnswer ==
    /\ pc = "done"
    /\ branch = "file"
    /\ result.kind = "raise"
    /\ result.at \in {"register", "negotiate", "transfer"}
    /\ result.v \in {"SourceAddError", "HTTPStatusError"}

\* C20: each upload phase fails with an error kind of its own, so that the kind
\* tells the caller the phase: negotiate with one kind both when the session
\* URL header is absent and when the request is rejected, the transfer with
\* another on a non-success response, neither with the kind of another phase.
C20_ErrorKindTellsPhase ==
    FailedOnAnswer =>
        /\ result.at = PhaseToldBy(result.v)
        /\ result.at = "negotiate" => result.v # "SourceAddError"
        /\ result.at = "transfer" => result.v # "HTTPStatusError"

-----------------------------------------------------------------------------
(* Two add calls at once: C17 *)

\* the requests of kind k that call c has sent
SentBy(c, k) ==
    {i \in 1..Len(cc_wire) : cc_wire[i].by = c /\ CallKind(cc_wire[i].req) = k}

\* C17: under every interleaving of two add calls for different files or
\* notebooks on one client, each call's negotiate request carries the sourceId
\* its own register call returned (and its own notebook, file name and size),
\* each call's transfer goes to the upload URL its own negotiate returned, and
\* each call that returns, returns its own sourceId.
C17_ConcurrentAddsDoNotInterfere ==
    \A c \in CcCalls :
        /\ \A i \in SentBy(c, "register") :
              cc_wire[i].req = RegisterCall(cc_args[c].notebook_id,
                                            PathName(cc_args[c].file_path))
        /\ \A i \in SentBy(c, "negotiate") :
              /\ cc_wire[i].req.body.SOURCE_ID = cc_got[c].source_id
              /\ cc_wire[i].req.body.PROJECT_ID = cc_args[c].notebook_id
              /\ cc_wire[i].req.body.SOURCE_NAME = PathName(cc_args[c].file_path)
              /\ cc_wire[i].req.headers.content_length = StatSize(cc_args[c].file_path)
        /\ \A i \in SentBy(c, "transfer") :
              cc_wire[i].req.url = cc_got[c].upload_url
        /\ cc_result[c].kind = "return" => cc_result[c].v = cc_got[c].source_id

\* both calls returned, their requests alternating, with different ids and
\* different session URLs
C17_Witness ==
    /\ \A c \in CcCalls : cc_pc[c] = "done" /\ cc_result[c].kind = "return"
    /\ [i \in 1..Len(cc_wire) |-> cc_wire[i].by] = <<1, 2, 2, 1, 1, 2>>
    /\ cc_got[1].source_id # cc_got[2].source_id
    /\ cc_got[1].upload_url # cc_got[2].upload_url
    /\ cc_result[1].v = cc_got[1].source_id
    /\ cc_result[2].v = cc_got[2].source_id

-----------------------------------------------------------------------------
(* What the upload requests carry: C21 and C22 *)

\* the file name in a register request
RegisteredName(call) == call.params.v[1].v[1].v[1].v

\* C21: data is threaded through the phases unchanged: the negotiate request
\* declares the file's byte size as content length and its body has PROJECT_ID
\* = the notebook id add was called with, SOURCE_NAME = the file name that was
\* registered (the last component of the path) and SOURCE_ID = the id in the
\* register reply; the transfer request goes to exactly the URL of the
\* negotiate response's header.
C21_DataThreadedThroughPhases ==
    \A i \in 1..Len(calls) :
        /\ CallKind(calls[i]) = "negotiate" =>
              /\ i = 2 /\ replies[1].to = "register"
              /\ calls[i].headers.content_length = diskSize
              /\ calls[i].body.PROJECT_ID = nb
              /\ calls[i].body.SOURCE_NAME = RegisteredName(calls[1])
              /\ calls[i].body.SOURCE_NAME = PathName(raw)
              /\ calls[i].body.SOURCE_ID = FirstChainEnd(replies[1].reply).v
        /\ CallKind(calls[i]) = "transfer" =>
              /\ i = 3 /\ replies[2].to = "negotiate"
              /\ calls[i].url = replies[2].reply.v

C21_Witness ==
    /\ pc = "done"
    /\ result.kind = "return"
    /\ raw = TMP_A_TXT
    /\ nb = "nb2"
    /\ diskSize = READ_SIZE + 1
    /\ calls[2].headers.content_length = READ_SIZE + 1
    /\ calls[2].body = [PROJECT_ID |-> "nb2", SOURCE_NAME |-> <<"a", ".", "t", "x", "t">>,
                        SOURCE_ID |-> "id-9"]
    /\ calls[3].url = "https://upload.example/session-B"

\* C22: every negotiate and every transfer request carries the Cookie header
\* made of the AuthContext's cookies, name=value joined by "; ", and the fixed
\* Origin and Referer headers.
C22_UploadRequestsCarryCookies ==
    \A i \in 1..Len(calls) :
        CallKind(calls[i]) \in {"negotiate", "transfer"} =>
            /\ calls[i].headers.Cookie = cookie_header(auth.cookies)
            /\ calls[i].headers.Cookie # <<>>
            /\ calls[i].headers.Origin = "https://notebooklm.google.com"
            /\ calls[i].headers.Referer = "https://notebooklm.google.com/"

C22_Witness ==
    /\ CallKinds(calls) = UploadPhases
    /\ auth.cookies = <<<<"SID", "x">>, <<"HSID", "y">>>>
    /\ calls[2].headers.Cookie = <<"SID", "=", "x", "; ", "HSID", "=", "y">>
    /\ calls[3].headers.Cookie = <<"SID", "=", "x", "; ", "HSID", "=", "y">>

-----------------------------------------------------------------------------
(* The file removed before the upload starts: C25 *)

\* C25: when the file add took for a local file is gone at the moment
\* _add_file_source starts (it was removed after add looked at it), the next
\* step ends add with SourceAddError, no register, negotiate or transfer
\* request has been made and nothing is registered at the service.
C25_RemovedFileFailsBeforeAnyRequest ==
    [][(pc = "file_check" /\ fs = "absent")
         => /\ pc' = "done"
            /\ result' = RaiseRec("SourceAddError", "precheck")
            /\ calls' = <<>>
            /\ registered' = {}]_vars

C25_Witness ==
    /\ pc = "done"
    /\ branch = "file"
    /\ fsAtAdd = "file"
    /\ fs = "absent"
    /\ result = RaiseRec("SourceAddError", "precheck")
    /\ calls = <<>>
    /\ registered = {}

-----------------------------------------------------------------------------
(* The identifier on the path-based hosts, and the format check: C23, C24 *)

\* the heads of the URLs on the four hosts that take the identifier from the
\* path or the query
PathHostHeads ==
    {Https(YOUTUBE_COM), Https(WWW_YOUTUBE_COM), Https(M_YOUTUBE_COM),
     Https(MUSIC_YOUTUBE_COM)}

\* candidate x as the parser's answer: x when well-formed, else none
IdOrNone(x) == IF WellFormedId(x) THEN Str(x) ELSE NoneVal

\* C23 as the specification words it: on a path-based host the identifier is
\* the segment after a recognised prefix, and in every other case, an empty or
\* a missing segment after the prefix included, it is the v query parameter:
\* /embed/?v=ID is a video reference with identifier ID.
C23_EmptySegmentFallsBackToQuery ==
    (cl_done /\ cl_fs # "file") =>
        \A h \in PathHostHeads :
            /\ \A p \in path_prefixes :
                  cl_raw = h \o SL \o p \o SL \o cl_x => cl_parse = IdOrNone(cl_x)
            /\ cl_raw = h \o SL \o WATCH_ \o QV \o cl_x => cl_parse = IdOrNone(cl_x)
            /\ cl_raw = h \o SL \o EMBED_ \o QV \o cl_x => cl_parse = IdOrNone(cl_x)
            /\ cl_raw = h \o SL \o EMBED_ \o SL \o QV \o cl_x => cl_parse = IdOrNone(cl_x)

\* C23: on a path-based host the identifier is the segment after a recognised
\* prefix whenever the path has such a segment, also when it is empty: then the
\* URL is no video reference and the v query parameter is not looked at
\* (/embed/?v=ID is a GenericUrl). The parser falls back to the v query
\* parameter when the path has no recognised prefix or no segment after it
\* (/embed?v=ID and /watch?v=ID are video references with identifier ID).
C23_EmptySegmentIsNoVideo ==
    (cl_done /\ cl_fs # "file") =>
        \A h \in PathHostHeads :
            /\ \A p \in path_prefixes :
                  cl_raw = h \o SL \o p \o SL \o cl_x => cl_parse = IdOrNone(cl_x)
            /\ cl_raw = h \o SL \o WATCH_ \o QV \o cl_x => cl_parse = IdOrNone(cl_x)
            /\ cl_raw = h \o SL \o EMBED_ \o QV \o cl_x => cl_parse = IdOrNone(cl_x)
            /\ cl_raw = h \o SL \o EMBED_ \o SL \o QV \o cl_x =>
                  cl_parse = NoneVal /\ cl_out.kind = "GenericUrl"

C23_Witness ==
    /\ cl_done
    /\ cl_fs = "absent"
    /\ cl_raw = Https(YOUTUBE_COM) \o SL \o EMBED_ \o SL \o QV \o ABC123
    /\ cl_parse = NoneVal
    /\ cl_out.kind = "GenericUrl"

\* the raw identifier the parser extracted from the input, before the format
\* check; none also when the URL does not parse or its host is not known
RawIdentifier(url) ==
    IF urlparse(Strip(url)).raised
       \/ hostname_of(urlparse(Strip(url))) \notin youtube_domains
    THEN NoneVal
    ELSE _extract_video_id_from_parsed_url(urlparse(Strip(url)),
                                           hostname_of(urlparse(Strip(url))))

\* C24: every VideoReference the classifier produces has its host (in lower
\* case) among the known video hosts and an identifier that is non-empty and
\* made of letters, digits, "-" and "_" only; an input that is no regular file
\* and whose raw identifier fails that check is a GenericUrl.
C24_VideoReferenceWellFormed ==
    cl_done =>
        /\ cl_out.kind = "VideoReference" =>
              /\ hostname_of(urlparse(Strip(cl_raw))) \in youtube_domains
              /\ cl_out.id.t = "str"
              /\ WellFormedId(cl_out.id.v)
        /\ (/\ cl_fs # "file"
            /\ RawIdentifier(cl_raw).t = "str"
            /\ ~WellFormedId(RawIdentifier(cl_raw).v))
           => cl_out.kind = "GenericUrl"

C24_Witness ==
    /\ cl_done
    /\ cl_fs = "absent"
    /\ cl_raw = Https(M_YOUTUBE_COM) \o SL \o WATCH_ \o QV \o <<"a", "!">>
    /\ RawIdentifier(cl_raw) = Str(<<"a", "!">>)
    /\ cl_out.kind = "GenericUrl"

====
